---- MODULE Spec2Model ----
(***************************************************************************)
(* A model of the aquametric analysis core (backend/app/core): the lap     *)
(* segmenter, the energy classifier and the stroke counters.               *)
(*                                                                         *)
(* Numbers.  Accelerations are integers in units of 0.1 m/s^2, so gravity  *)
(* 9.8 is 98 and the classifier threshold 5.0 is 50.  Frequencies are      *)
(* integers in units of 0.1 Hz.  Sampling rates are whole Hz.  Arithmetic  *)
(* is exact (rational comparisons are cross-multiplied), except where the  *)
(* code truncates a binary64 value that exact arithmetic puts on a whole   *)
(* number: those roundings are tabulated.  Python indices are 0-based and  *)
(* ranges half-open; TLA+ sequences are 1-based, so Python's a[i] is       *)
(* a[i + 1] here, and every index the model stores is the Python index.    *)
(***************************************************************************)
EXTENDS Integers, Sequences, FiniteSets, TLC

VARIABLES
    pc,             \* which operation has run on the current input
    sampling_rate,  \* Hz
    accel,          \* segmenter input: sequence of <<ax, ay, az>>
    swimming_mask,  \* segment(): null_prob < 0.5, per sample (0/1)
    closed_mask,    \* segment(): the mask after _morphological_close
    opened_mask,    \* segment(): the mask after _morphological_open
    segments,       \* segment(): the runs _find_segments returned
    laps,           \* segment(): the returned list of <<start, end>>
    lap_data,       \* one lap's accelerometer rows <<x, y, z>>
    stroke_type,    \* classify()'s result; count_strokes()'s argument
    peak_count,     \* hybrid count_strokes(): the peak-detection estimate
    fft_count,      \* hybrid count_strokes(): the spectral estimate
    stroke_count,   \* count_strokes()'s result
    session,        \* analyze()'s argument: the SessionData
    order,          \* SwimBITFilter.order of the pipeline's preprocessor
    filtered_accel, \* analyze(): what process() returned for the accel
    filtered_gyro,  \* analyze(): what process() returned for the gyro
    lap_index,      \* analyze(): the laps of lap_segments already built
    swim_laps,      \* analyze(): its list `laps` of SwimLap
    calls,          \* the component calls analyze() has made, in order
    fail_at,        \* the number of the component call that raises, or 0
    raised,         \* the exception that left the call, or "none"
    result,         \* the AnalysisResult returned, or NoResult
    summary,        \* the derived properties read from an AnalysisResult
    raw_data,       \* process()'s argument, of a call outside analyze()
    cutoff_hz,      \* SwimBITFilter.cutoff_hz, in 0.1 Hz
    taps_cache,     \* SwimBITFilter._filter_taps_cache: rate -> taps
    threads,        \* per caller of process(): position, rate, taps held
    designs,        \* how often firwin was called, per rate
    interleaved,    \* whether calls of different callers may overlap
    heap,           \* numpy buffers: buffer -> its cells
    source,         \* a SensorData: field -> view of a buffer, or None
    sliced,         \* what source.slice(start, end) returned
    snapshot,       \* the contents of source and sliced when slice returned
    now,            \* datetime.now(), in clock ticks
    uuids,          \* the number of uuid4() values drawn
    runs,           \* the results of the analyze calls made on one session
    null_probs,     \* NullProbabilitySegmenter.null_probs in 0.01, or NoProbs
    prob_threshold, \* config['smooth_nulls']['probability'], in 0.01
    null_segments,  \* what NullProbabilitySegmenter.segment returned
    refined,        \* what refine_lap_boundaries returned for laps
    sessions,       \* _sessions: session id -> status, progress, error
    results,        \* the session ids that have an entry in _analysis_results
    tasks,          \* background tasks: session id -> table, position
    response,       \* the last HTTP response: operation, status code, detail, id
    issued,         \* the number of uuid4() session ids drawn by upload_session
    deleted         \* the session ids whose delete_session succeeded

pipeVars == <<session, order, filtered_accel, filtered_gyro, lap_index,
              swim_laps, calls, fail_at, raised, result, summary,
              raw_data>>

\* The state of one shared SwimBITFilter, other than its order
cacheVars == <<cutoff_hz, taps_cache, threads, designs, interleaved>>

\* The arrays of a SensorData and of a slice of it
sliceVars == <<heap, source, sliced, snapshot>>

\* The clock, the uuid4 source and the results of repeated analyze calls
detVars == <<now, uuids, runs>>

\* The state of a NullProbabilitySegmenter and what its segment returned
nullVars == <<null_probs, prob_threshold, null_segments>>

\* What refine_lap_boundaries returned
refineVars == <<refined>>

\* The in-memory stores of the sessions API, its background tasks and the last response
apiVars == <<sessions, results, tasks, response, issued, deleted>>

\* The state outside the analysis components
svcVars == <<cacheVars, sliceVars, detVars, nullVars, refineVars, apiVars>>

\* What the callers of a shared filter leave alone
cacheFrame == <<sliceVars, detVars, nullVars, refineVars, apiVars>>

\* What slicing and writing arrays leaves alone
sliceFrame == <<cacheVars, detVars, nullVars, refineVars, apiVars>>

\* What repeating an analysis leaves alone
detFrame == <<cacheVars, sliceVars, nullVars, refineVars, apiVars>>

\* What a NullProbabilitySegmenter leaves alone
nullFrame == <<cacheVars, sliceVars, detVars, refineVars, apiVars>>

\* What refine_lap_boundaries leaves alone
refineFrame == <<cacheVars, sliceVars, detVars, nullVars, apiVars>>

\* What the sessions API leaves alone
apiFrame == <<cacheVars, sliceVars, detVars, nullVars, refineVars>>

\* The state of the analysis components, other than pc
coreVars == <<sampling_rate, accel, swimming_mask, closed_mask, opened_mask,
              segments, laps, lap_data, stroke_type, peak_count, fft_count,
              stroke_count, session, order, filtered_accel, filtered_gyro,
              lap_index, swim_laps, calls, fail_at, raised, result, summary,
              raw_data>>

vars == <<pc, sampling_rate, accel, swimming_mask, closed_mask, opened_mask,
          segments, laps, lap_data, stroke_type, peak_count, fft_count,
          stroke_count, session, order, filtered_accel, filtered_gyro,
          lap_index, swim_laps, calls, fail_at, raised, result, summary,
          raw_data, svcVars>>

----------------------------------------------------------------------------
(* Helpers *)

Abs(x) == IF x < 0 THEN -x ELSE x

Max2(a, b) == IF a >= b THEN a ELSE b

Min2(a, b) == IF a <= b THEN a ELSE b

\* np.sqrt on a sum of squares: the integer square root (Newton's iteration
\* from a start x at or above the root), exact on the perfect squares the
\* inputs give.
RECURSIVE IsqrtFrom(_, _)
IsqrtFrom(s, x) ==
    LET y == (x + s \div x) \div 2
    IN  IF y >= x THEN x ELSE IsqrtFrom(s, y)

\* hi is any number with hi * hi >= s.
Isqrt(s, hi) == IF s = 0 THEN 0 ELSE IsqrtFrom(s, hi)

----------------------------------------------------------------------------
(* PitchRollSegmenter (core/segmenter.py) *)

Gravity == 98

MinLapDurationSec == 10

CloseSeconds == 3

OpenSeconds == 2

\* magnitude = np.sqrt(np.sum(accel ** 2, axis=1)), one sample
Magnitude(a) ==
    Isqrt(a[1] * a[1] + a[2] * a[2] + a[3] * a[3],
          Abs(a[1]) + Abs(a[2]) + Abs(a[3]))

NullProbability_OfMagnitude(a) == (1000 * 20) \div (20 + Magnitude(a))

\* null_prob = 1.0 / (1.0 + deviation / 2.0), in units of 1/1000.  With the
\* deviation d in tenths, 1/(1 + d/20) = 20/(20 + d).
NullProbability(a) ==
    LET deviation == Abs(Magnitude(a) - Gravity)
    IN  (1000 * 20) \div (20 + deviation)

\* swimming_mask = null_prob < 0.5, then .astype(int)
SwimmingMask(acc) ==
    [i \in 1..Len(acc) |-> IF NullProbability(acc[i]) < 500 THEN 1 ELSE 0]

\* mask[max(0, i - size):min(len(mask), i + size + 1)] for the Python index
\* i = k - 1: the 1-based positions of the window.
Window(n, k, size) == Max2(1, k - size)..Min2(n, k + size)

\* The first loop of both operations on its own: result[i] = 1 where any
\* sample of the window is set (dilation), result[i] = 0 where not all are
\* (erosion); every other sample keeps its value.
Dilate(mask, size) ==
    [k \in 1..Len(mask) |->
        IF \E j \in Window(Len(mask), k, size) : mask[j] # 0 THEN 1 ELSE mask[k]]

Erode(mask, size) ==
    [k \in 1..Len(mask) |->
        IF ~(\A j \in Window(Len(mask), k, size) : mask[j] # 0) THEN 0 ELSE mask[k]]

MorphologicalClose_ErodeFirst(mask, size) == Dilate(Erode(mask, size), size)

MorphologicalClose(mask, size) == Erode(Dilate(mask, size), size)

MorphologicalOpen_DilateFirst(mask, size) == Erode(Dilate(mask, size), size)

MorphologicalOpen(mask, size) == Dilate(Erode(mask, size), size)

\* One pass of the loop body of _find_segments at Python index i; st holds the
\* locals in_segment, start_idx and segments.
FindSegmentsStep(mask, st, i) ==
    IF mask[i + 1] # 0 /\ ~st.in_segment
    THEN [st EXCEPT !.start_idx = i, !.in_segment = TRUE]
    ELSE IF mask[i + 1] = 0 /\ st.in_segment
         THEN [st EXCEPT !.segments = Append(@, <<st.start_idx, i>>),
                         !.in_segment = FALSE]
         ELSE st

\* for i in lo..hi, in order.  The range is halved, and the locals are read
\* before the second half runs, so that the evaluation of a long series does
\* not nest one call per sample.
RECURSIVE FindSegmentsLoop(_, _, _, _)
FindSegmentsLoop(mask, st, lo, hi) ==
    IF lo > hi THEN st
    ELSE IF lo = hi THEN FindSegmentsStep(mask, st, lo)
    ELSE LET mid  == (lo + hi) \div 2
             left == FindSegmentsLoop(mask, st, lo, mid)
         IN  IF left.in_segment \in BOOLEAN
             THEN FindSegmentsLoop(mask, left, mid + 1, hi)
             ELSE left

FindSegments(mask) ==
    LET st == FindSegmentsLoop(mask,
                  [in_segment |-> FALSE, start_idx |-> 0, segments |-> <<>>],
                  0, Len(mask) - 1)
    IN  IF st.in_segment
        THEN Append(st.segments, <<st.start_idx, Len(mask)>>)
        ELSE st.segments

FilterShortSegments_KeepAll(segs, min_samples) == segs

FilterShortSegments(segs, min_samples) ==
    SelectSeq(segs, LAMBDA se : se[2] - se[1] >= min_samples)

CloseSize_AsFullWidth(rate) == (CloseSeconds * rate) \div 2

CloseSize(rate) == CloseSeconds * rate

OpenSize(rate) == OpenSeconds * rate

MinSamples(rate) == MinLapDurationSec * rate

----------------------------------------------------------------------------
(* Inputs of the segmenter.  A series is a sequence of runs of samples,    *)
(* alternately swimming and resting; each kind of sample has an exact      *)
(* magnitude.                                                              *)

MaxRuns == 3

MaxRunLen == 10

MaxRestSec == 10

RestSample == <<0, 0, 98>>       \* magnitude 9.8: deviation 0

SideRestSample == <<0, -98, 0>>  \* magnitude 9.8 on another axis

SwimSample == <<0, 0, 248>>      \* magnitude 24.8: deviation 15

CalmSwimSample == <<72, 96, 0>>  \* magnitude 12.0: deviation 2.2

SegRates == {1, 2}

ScenarioRates == {1, 2, 30}

\* The run lengths tried: every length up to twice the close size at 1 Hz
\* and one more, and the longest.
RunLens == (1..7) \cup {MaxRunLen}

\* The series of the runs lens; run k is swimming iff swim, and the runs
\* after the second are of the second pair of samples.
RECURSIVE Expand(_, _, _)
Expand(lens, swim, k) ==
    IF lens = <<>> THEN <<>>
    ELSE LET pair == IF k <= 2 THEN <<SwimSample, RestSample>>
                     ELSE <<CalmSwimSample, SideRestSample>>
         IN  [i \in 1..lens[1] |-> IF swim THEN pair[1] ELSE pair[2]]
             \o Expand(Tail(lens), ~swim, k + 1)

RunLists == UNION {[1..n -> RunLens] : n \in 0..MaxRuns}

\* The variables of the other components, while the segmenter runs.

NoSession == [pool_length_m |-> 0]

NoArray == [ndim |-> 0, data |-> <<>>]

NoResult == [returned |-> FALSE]

NoSummary == [read |-> "none"]

\* No SwimBITFilter is shared between callers.
CacheIdle ==
    /\ cutoff_hz = 0
    /\ taps_cache = <<>>
    /\ threads = <<>>
    /\ designs = <<>>
    /\ interleaved = FALSE

None == [buf |-> 0]

\* No SensorData is being sliced.
SliceIdle ==
    /\ heap = <<>>
    /\ source = None
    /\ sliced = None
    /\ snapshot = None

DetIdle ==
    /\ now = 0
    /\ uuids = 0
    /\ runs = <<>>

NullIdle ==
    /\ null_probs = <<>>
    /\ prob_threshold = 0
    /\ null_segments = <<>>

RefineIdle ==
    /\ refined = <<>>

ApiIdle ==
    /\ sessions = <<>>
    /\ results = {}
    /\ tasks = <<>>
    /\ response = [op |-> "none"]
    /\ issued = 0
    /\ deleted = {}

SvcIdle == CacheIdle /\ SliceIdle /\ DetIdle /\ NullIdle /\ RefineIdle /\ ApiIdle

\* No analyze() call is in progress.
CallIdle ==
    /\ SvcIdle
    /\ session = NoSession
    /\ order = 0
    /\ filtered_accel = NoArray
    /\ filtered_gyro = NoArray
    /\ lap_index = 0
    /\ swim_laps = <<>>
    /\ calls = <<>>
    /\ fail_at = 0
    /\ raised = "none"
    /\ raw_data = NoArray

\* No analyze() call is in progress and no AnalysisResult exists.
PipeIdle ==
    /\ CallIdle
    /\ result = NoResult
    /\ summary = NoSummary

CountIdle ==
    /\ peak_count = 0
    /\ fft_count = 0
    /\ stroke_count = 0

LapIdle ==
    /\ lap_data = <<>>
    /\ stroke_type = "unknown"
    /\ CountIdle

SegIdle ==
    /\ pc = "seg_ready"
    /\ LapIdle
    /\ PipeIdle
    /\ swimming_mask = <<>>
    /\ closed_mask = <<>>
    /\ opened_mask = <<>>
    /\ segments = <<>>
    /\ laps = <<>>

\* Any series of at most MaxRuns runs of at most MaxRunLen samples.
SegInit ==
    /\ SegIdle
    /\ sampling_rate \in SegRates
    /\ \E lens \in RunLists, first \in BOOLEAN : accel = Expand(lens, first, 1)

\* Two bursts of 15 seconds of swimming around a rest of whole seconds.
ScenarioInit ==
    /\ SegIdle
    /\ sampling_rate \in ScenarioRates
    /\ \E r \in 1..MaxRestSec, k \in {1, 2} :
          accel = Expand(<<15 * sampling_rate, r * sampling_rate,
                           15 * sampling_rate>>, TRUE, k)

\* PitchRollSegmenter.segment(sensor_data, sampling_rate), the whole call; the
\* locals it passes through are kept beside the result.
Segment ==
    /\ pc = "seg_ready"
    /\ LET mask   == SwimmingMask(accel)
           closed == MorphologicalClose(mask, CloseSize(sampling_rate))
           opened == MorphologicalOpen(closed, OpenSize(sampling_rate))
           segs   == FindSegments(opened)
       IN  /\ swimming_mask' = mask
           /\ closed_mask' = closed
           /\ opened_mask' = opened
           /\ segments' = segs
           /\ laps' = FilterShortSegments(segs, MinSamples(sampling_rate))
    /\ pc' = "seg_done"
    /\ UNCHANGED <<sampling_rate, accel, lap_data, stroke_type, peak_count,
                   fft_count, stroke_count, pipeVars,
                   svcVars>>

SegNext == Segment

SegSpec == SegInit /\ [][SegNext]_vars

ScenarioSpec == ScenarioInit /\ [][SegNext]_vars

----------------------------------------------------------------------------
(* Claims about the segmenter *)

\* The maximal runs of set samples of a mask, as <<first, last>> 1-based
\* positions.
MaxRunsOf(mask) ==
    {<<a, b>> \in (1..Len(mask)) \X (1..Len(mask)) :
        /\ a <= b
        /\ \A k \in a..b : mask[k] # 0
        /\ (a = 1 \/ mask[a - 1] = 0)
        /\ (b = Len(mask) \/ mask[b + 1] = 0)}

\* The gaps of a mask: the maximal runs of clear samples that lie between two
\* set samples.
GapsOf(mask) ==
    {<<a, b>> \in (2..Len(mask) - 1) \X (2..Len(mask) - 1) :
        /\ a <= b
        /\ \A k \in a..b : mask[k] = 0
        /\ mask[a - 1] # 0
        /\ mask[b + 1] # 0}

\* C1: segment returns ranges sorted ascending by start, mutually
\* non-overlapping, each at least int(min_lap_duration_sec * sampling_rate)
\* samples long and each with 0 <= start < end <= N.
C1_RangesValid ==
    pc = "seg_done" =>
        /\ \A k \in 1..Len(laps) :
              /\ 0 <= laps[k][1]
              /\ laps[k][1] < laps[k][2]
              /\ laps[k][2] <= Len(accel)
              /\ laps[k][2] - laps[k][1] >= MinSamples(sampling_rate)
        /\ \A k \in 1..Len(laps) - 1 :
              /\ laps[k][1] < laps[k + 1][1]
              /\ laps[k][2] <= laps[k + 1][1]

C1_Witness == pc = "seg_done" /\ Len(laps) = 2

IsTwoBursts(acc, rate, burst_sec, rest_sec) ==
    /\ Len(acc) = (2 * burst_sec + rest_sec) * rate
    /\ \A i \in 1..Len(acc) :
          IF i <= burst_sec * rate \/ i > (burst_sec + rest_sec) * rate
          THEN NullProbability(acc[i]) < 500
          ELSE Magnitude(acc[i]) = Gravity

\* C2: a 30 Hz series of two 15-second swimming bursts separated by a
\* 5-second rest at gravity yields exactly 2 laps.
C2_TwoLaps ==
    (pc = "seg_done" /\ sampling_rate = 30 /\ IsTwoBursts(accel, 30, 15, 5))
        => Len(laps) = 2

\* C3: segment returns the empty lap list for the empty series and for every
\* series whose magnitude is gravity at every sample.
C3_AllRestEmpty ==
    (pc = "seg_done" /\ \A i \in 1..Len(accel) : Magnitude(accel[i]) = Gravity)
        => laps = <<>>

C3_Witness ==
    /\ pc = "seg_done"
    /\ Len(accel) >= MinSamples(sampling_rate)
    /\ \A i \in 1..Len(accel) : Magnitude(accel[i]) = Gravity
    /\ laps = <<>>

\* C4: the close with w = int(3 * sampling_rate) sets every sample of every
\* gap of at most w samples between two swimming samples, and clears no
\* sample that was swimming.
C4_CloseFillsGaps ==
    pc = "seg_done" =>
        /\ \A g \in GapsOf(swimming_mask) :
              g[2] - g[1] + 1 <= CloseSize(sampling_rate)
                  => \A k \in g[1]..g[2] : closed_mask[k] # 0
        /\ \A k \in 1..Len(swimming_mask) :
              swimming_mask[k] # 0 => closed_mask[k] # 0

C4_Witness ==
    /\ pc = "seg_done"
    /\ \E g \in GapsOf(swimming_mask) :
          /\ g[2] - g[1] + 1 = CloseSize(sampling_rate)
          /\ \A k \in g[1]..g[2] : closed_mask[k] # 0

\* Every maximal run of fewer than w set samples of mask, other than the
\* runs in skip, is clear in opened; and opened sets nothing mask has clear.
OpenRemoves(mask, opened, w, skip) ==
    /\ \A r \in MaxRunsOf(mask) \ skip :
          r[2] - r[1] + 1 < w => \A k \in r[1]..r[2] : opened[k] = 0
    /\ \A k \in 1..Len(mask) : mask[k] = 0 => opened[k] = 0

----------------------------------------------------------------------------
(* EnergyClassifier (core/classifier.py) *)

StrokeTypes ==
    {"freestyle", "backstroke", "breaststroke", "butterfly", "unknown",
     "rest", "turn"}

MinClassifySamples == 30

BackstrokeGravityZ == 50        \* 5.0

FreestyleYEnergyRatio == 12     \* 1.2, in tenths

ButterflyXEnergy == 150         \* 15.0

BreaststrokeEnergyMax == 120    \* 12.0

TotalEnergyTiebreak == 350      \* 35

RECURSIVE SumSeq(_)
SumSeq(xs) == IF xs = <<>> THEN 0 ELSE xs[1] + SumSeq(Tail(xs))

\* data[:, c], c the Python column 0..2
Column(data, c) == [i \in 1..Len(data) |-> data[i][c + 1]]

\* _calculate_energy of one column, times N * N: with S the column's sum,
\* the mean is S / N and sum(|x - mean|) / N is sum(|N * x - S|) / (N * N).
EnergyN2(xs) ==
    LET n == Len(xs)
        S == SumSeq(xs)
    IN  SumSeq([i \in 1..n |-> Abs(n * xs[i] - S)])

\* _calculate_energy(data) for shape (N, 3): the three energies, times N * N
CalculateEnergy(data) ==
    <<EnergyN2(Column(data, 0)), EnergyN2(Column(data, 1)),
      EnergyN2(Column(data, 2))>>

\* z_mean > threshold, with z_mean = sum / N
DetectBackstrokeByGravity(accel_data) ==
    SumSeq(Column(accel_data, 2)) > BackstrokeGravityZ * Len(accel_data)

TooShortToClassify_Never(data) == FALSE

\* len(lap_data) < 30
TooShortToClassify(data) == Len(data) < MinClassifySamples

\* The branch of classify under "if E_z >= E_y"; E holds the energies times
\* n2 = N * N.
SymmetricStroke_NoBand(E, n2) ==
    IF E[1] > ButterflyXEnergy * n2 THEN "butterfly" ELSE "breaststroke"

SymmetricStroke(E, n2) ==
    IF E[1] > ButterflyXEnergy * n2 THEN "butterfly"
    ELSE IF E[1] < BreaststrokeEnergyMax * n2 THEN "breaststroke"
    ELSE IF E[1] + E[2] + E[3] > TotalEnergyTiebreak * n2 THEN "butterfly"
    ELSE "breaststroke"

\* E_y > E_x * y_ratio and E_y > E_z * y_ratio
FreestyleDominant(E) ==
    /\ 10 * E[2] > FreestyleYEnergyRatio * E[1]
    /\ 10 * E[2] > FreestyleYEnergyRatio * E[3]

Classify_EnergyFirst(data) ==
    IF TooShortToClassify(data) THEN "unknown"
    ELSE LET E == CalculateEnergy(data)
         IN  IF FreestyleDominant(E) THEN "freestyle"
             ELSE IF DetectBackstrokeByGravity(data) THEN "backstroke"
             ELSE IF E[3] >= E[2] THEN SymmetricStroke(E, Len(data) * Len(data))
             ELSE "freestyle"

\* EnergyClassifier.classify(lap_data)
Classify(data) ==
    IF TooShortToClassify(data) THEN "unknown"
    ELSE LET E == CalculateEnergy(data)
         IN  IF DetectBackstrokeByGravity(data) THEN "backstroke"
             ELSE IF FreestyleDominant(E) THEN "freestyle"
             ELSE IF E[3] >= E[2] THEN SymmetricStroke(E, Len(data) * Len(data))
             ELSE "freestyle"

----------------------------------------------------------------------------
(* Inputs of the classifier: on each axis the lap swings by an amplitude   *)
(* around a base value, sample by sample, so that over an even number of   *)
(* samples the mean is the base and the energy is the amplitude.           *)

MaxClsLen == 32

ClsLens == {0, 1, 29, 30, 31, MaxClsLen}

AmpsX == {0, 50, 110, 120, 130, 150, 160}

AmpsY == {0, 50, 110, 140, 200}

AmpsZ == {0, 50, 110, 120, 200}

BasesZ == {0, 50, 51, 98}

Swing(i, base, amp) == IF i % 2 = 1 THEN base + amp ELSE base - amp

SwingLap(n, ax, ay, az, bz) ==
    [i \in 1..n |-> <<Swing(i, 0, ax), Swing(i, 0, ay), Swing(i, bz, az)>>]

SegUnused ==
    /\ accel = <<>>
    /\ swimming_mask = <<>>
    /\ closed_mask = <<>>
    /\ opened_mask = <<>>
    /\ segments = <<>>
    /\ laps = <<>>

ClsInit ==
    /\ pc = "cls_ready"
    /\ PipeIdle
    /\ sampling_rate = 30
    /\ SegUnused
    /\ \E n \in ClsLens, ax \in AmpsX, ay \in AmpsY, az \in AmpsZ, bz \in BasesZ :
          lap_data = SwingLap(n, ax, ay, az, bz)
    /\ stroke_type = "unknown"
    /\ CountIdle

\* stroke_type = self.classifier.classify(lap_accel)
ClassifyLap ==
    /\ pc = "cls_ready"
    /\ stroke_type' = Classify(lap_data)
    /\ pc' = "cls_done"
    /\ UNCHANGED <<sampling_rate, accel, swimming_mask, closed_mask,
                   opened_mask, segments, laps, lap_data, peak_count,
                   fft_count, stroke_count, pipeVars,
                   svcVars>>

ClsNext == ClassifyLap

ClsSpec == ClsInit /\ [][ClsNext]_vars

----------------------------------------------------------------------------
(* Claims about the classifier *)

FourStyles == {"freestyle", "backstroke", "breaststroke", "butterfly"}

\* C6: classify returns unknown for every lap of fewer than 30 samples,
\* one of freestyle, backstroke, breaststroke, butterfly for every lap of
\* 30 samples or more (the all-zero lap too), and never rest or turn.
C6_ClassifyRange ==
    pc = "cls_done" =>
        /\ Len(lap_data) < 30 => stroke_type = "unknown"
        /\ Len(lap_data) >= 30 => stroke_type \in FourStyles
        /\ stroke_type \notin {"rest", "turn"}

C6_Witness ==
    /\ pc = "cls_done"
    /\ Len(lap_data) >= 30
    /\ \A i \in 1..Len(lap_data) : lap_data[i] = <<0, 0, 0>>
    /\ stroke_type \in FourStyles

\* C7: every lap of 30 samples or more whose mean Z exceeds 5.0 is
\* backstroke, whatever its energies.
C7_BackstrokeFirst ==
    (/\ pc = "cls_done"
     /\ Len(lap_data) >= 30
     /\ SumSeq(Column(lap_data, 2)) > 50 * Len(lap_data))
        => stroke_type = "backstroke"

\* a backstroke lap whose Y energy would make it freestyle by the next rule
C7_Witness ==
    /\ pc = "cls_done"
    /\ Len(lap_data) >= 30
    /\ SumSeq(Column(lap_data, 2)) > 50 * Len(lap_data)
    /\ FreestyleDominant(CalculateEnergy(lap_data))
    /\ stroke_type = "backstroke"

\* The decision procedure of C8 on the energies Ex, Ey, Ez times n2.
C8_Reference(Ex, Ey, Ez, n2) ==
    IF 10 * Ey > 12 * Ex /\ 10 * Ey > 12 * Ez THEN "freestyle"
    ELSE IF Ez >= Ey
         THEN IF Ex > 150 * n2 THEN "butterfly"
              ELSE IF Ex < 120 * n2 THEN "breaststroke"
              ELSE IF Ex + Ey + Ez > 350 * n2 THEN "butterfly"
              ELSE "breaststroke"
         ELSE "freestyle"

\* C8: for every lap of 30 samples or more whose mean Z does not exceed 5.0,
\* classify is the first match of: freestyle if E_y > 1.2 E_x and
\* E_y > 1.2 E_z; else if E_z >= E_y, butterfly when E_x > 15, breaststroke
\* when E_x < 12, and in between butterfly iff E_x + E_y + E_z > 35; else
\* freestyle.
C8_DecisionProcedure ==
    (/\ pc = "cls_done"
     /\ Len(lap_data) >= 30
     /\ SumSeq(Column(lap_data, 2)) <= 50 * Len(lap_data))
        => LET E == CalculateEnergy(lap_data)
           IN  stroke_type = C8_Reference(E[1], E[2], E[3],
                                          Len(lap_data) * Len(lap_data))

\* a lap in the band 12 <= E_x <= 15 that the total energy makes butterfly
C8_Witness ==
    /\ pc = "cls_done"
    /\ Len(lap_data) >= 30
    /\ SumSeq(Column(lap_data, 2)) <= 50 * Len(lap_data)
    /\ LET E  == CalculateEnergy(lap_data)
           n2 == Len(lap_data) * Len(lap_data)
       IN  /\ E[1] >= 120 * n2
           /\ E[1] <= 150 * n2
           /\ E[3] >= E[2]
           /\ E[1] + E[2] + E[3] > 350 * n2
    /\ stroke_type = "butterfly"

----------------------------------------------------------------------------
(* BasicStrokeCounter and HybridStrokeCounter (core/stroke_counter.py) *)

MinCountSamples == 10

MinFFTSamples == 30

MinPeakDistanceFloor == 3

\* _get_stroke_frequency_range: <<min_freq, max_freq>> in tenths of a Hz
FrequencyRange(style) ==
    CASE style = "freestyle"    -> <<6, 15>>
      [] style = "backstroke"   -> <<5, 12>>
      [] style = "breaststroke" -> <<3, 8>>
      [] style = "butterfly"    -> <<4, 10>>
      [] style = "unknown"      -> <<3, 15>>
      [] OTHER                  -> <<3, 15>>

\* int(min_period * sampling_rate) with min_period = 1.0 / max_freq
CalculateMinPeakDistance(style, rate) == (10 * rate) \div FrequencyRange(style)[2]

MinDistance_Unspaced(style, rate) == 1

\* min_distance = max(3, min_distance)
MinDistance(style, rate) ==
    Max2(MinPeakDistanceFloor, CalculateMinPeakDistance(style, rate))

Bilateral(style) == style \in {"freestyle", "backstroke"}

\* signal = lap_data[:, 1] for freestyle and backstroke, lap_data[:, 2] for
\* every other style
SelectAxis(data, style) ==
    IF Bilateral(style) THEN Column(data, 1) ELSE Column(data, 2)

\* signal - np.mean(signal), times N
Demean(xs) ==
    LET S == SumSeq(xs)
    IN  [i \in 1..Len(xs) |-> Len(xs) * xs[i] - S]

Negate(xs) == [i \in 1..Len(xs) |-> -xs[i]]

RECURSIVE SortedSeq(_)
SortedSeq(S) ==
    IF S = {} THEN <<>>
    ELSE LET m == CHOOSE v \in S : \A u \in S : v <= u
         IN  <<m>> \o SortedSeq(S \ {m})

\* scipy's local maxima of x, as ascending Python indices.  A sample i in
\* 1..n-2 that is higher than the sample before it starts a plateau; the
\* plateau runs to the last sample equal to x[i], looking no further than
\* the last sample; it is a maximum, at its midpoint, when the sample after
\* it is lower.  The first and the last sample are never maxima.
PlateauEnd(x, i) ==
    CHOOSE r \in i..Len(x) - 2 :
        /\ \A k \in i..r : x[k + 1] = x[i + 1]
        /\ (r = Len(x) - 2 \/ x[r + 2] # x[i + 1])

LocalMaxima(x) ==
    LET starts == {i \in 1..Len(x) - 2 : x[i] < x[i + 1]}
        tops   == {i \in starts : x[PlateauEnd(x, i) + 2] < x[i + 1]}
    IN  SortedSeq({(i + PlateauEnd(x, i)) \div 2 : i \in tops})

\* scipy's selection by distance: the peaks are visited from the highest to
\* the lowest (of equal peaks the later first, as a stable argsort read from
\* its end gives), and a visited peak that is still kept drops every other
\* peak closer to it than distance.  todo and keep are sets of positions in
\* peaks.
RECURSIVE SelectByPeakDistance(_, _, _, _, _)
SelectByPeakDistance(peaks, x, distance, todo, keep) ==
    IF todo = {} THEN keep
    ELSE LET j == CHOOSE a \in todo : \A b \in todo :
                      \/ x[peaks[b] + 1] < x[peaks[a] + 1]
                      \/ x[peaks[b] + 1] = x[peaks[a] + 1] /\ b <= a
             near == {k \in DOMAIN peaks :
                         k # j /\ Abs(peaks[j] - peaks[k]) < distance}
         IN  SelectByPeakDistance(peaks, x, distance, todo \ {j},
                                  IF j \in keep THEN keep \ near ELSE keep)

\* find_peaks(x, distance=distance)[0]
FindPeaks(x, distance) ==
    LET peaks == LocalMaxima(x)
        keep  == SelectByPeakDistance(peaks, x, distance, DOMAIN peaks,
                                      DOMAIN peaks)
    IN  SelectSeq(peaks, LAMBDA p : \E k \in keep : peaks[k] = p)

TooShortToCount_Never(data) == FALSE

\* len(lap_data) < 10
TooShortToCount(data) == Len(data) < MinCountSamples

\* BasicStrokeCounter.count_strokes(lap_data, stroke_type)
CountStrokes(data, style, rate) ==
    IF TooShortToCount(data) THEN 0
    ELSE LET signal    == Demean(SelectAxis(data, style))
             peaks_pos == FindPeaks(signal, MinDistance(style, rate))
             peaks_neg == FindPeaks(Negate(signal), MinDistance(style, rate))
         IN  IF Bilateral(style) THEN Len(peaks_pos)
             ELSE Max2(Len(peaks_pos), Len(peaks_neg))

\* The bins k of np.fft.fftfreq(n, 1 / rate) with a positive frequency
\* k * rate / n
PositiveBins(n) == 1..((n - 1) \div 2)

\* positive_freqs[k - 1] >= min_freq in binary64 where the exact bin
\* frequency equals min_freq: of the rates 1, 10, 30 and 30 <= n <= 42 only
\* 14 * (1.0 / 35.0) = 0.39999999999999997 falls below its band edge 0.4.
\* The entries are <<rate, n, k, min_freq>>.
BelowBandEdge == {<<1, 35, 14, 4>>}

\* freq_mask: min_freq <= k * rate / n <= max_freq
InBand(n, style, rate) ==
    {k \in PositiveBins(n) :
        /\ FrequencyRange(style)[1] * n <= 10 * k * rate
        /\ 10 * k * rate <= FrequencyRange(style)[2] * n
        /\ <<rate, n, k, FrequencyRange(style)[1]>> \notin BelowBandEdge}

\* The bins np.argmax(masked_mags) can name.  The magnitudes themselves are
\* not modelled: a constant signal has the zero spectrum, whose argmax is
\* the first positive bin; of any other signal the argmax is a bin of the
\* band, or the first positive bin when the band holds no energy.
ArgmaxOutcomes(signal, n, style, rate) ==
    IF \A i \in 1..n : signal[i] = signal[1] THEN {1}
    ELSE InBand(n, style, rate) \cup {1}

\* int(dominant_freq * duration_sec), line 155: dominant_freq is
\* k * (1.0 / (n * (1.0 / rate))) and duration_sec is n / rate, in binary64.
\* Their exact product is the bin number k; the rounded product is k or just
\* below k, and int() of the latter is k - 1.  These are the <<rate, n, k>>,
\* for the rates 1, 10, 30 and 30 <= n <= 42, whose product
\* falls below k under IEEE-754 round-to-nearest evaluation.
SpectralTruncatesBelow ==
    {<<1, 31, 9>>, <<1, 31, 13>>, <<1, 34, 3>>, <<1, 34, 6>>, <<1, 34,
     12>>, <<1, 35, 7>>, <<1, 35, 14>>, <<1, 36, 7>>, <<1, 36, 11>>, <<1,
     36, 14>>, <<1, 36, 15>>, <<1, 38, 13>>, <<1, 38, 17>>, <<1, 39, 15>>,
     <<1, 42, 11>>, <<1, 42, 15>>, <<1, 42, 19>>, <<10, 30, 7>>, <<10, 30,
     14>>, <<10, 31, 7>>, <<10, 31, 14>>, <<10, 33, 1>>, <<10, 33, 2>>,
     <<10, 33, 3>>, <<10, 33, 4>>, <<10, 33, 5>>, <<10, 33, 6>>, <<10, 33,
     7>>, <<10, 33, 8>>, <<10, 33, 9>>, <<10, 33, 10>>, <<10, 33, 11>>,
     <<10, 33, 12>>, <<10, 33, 13>>, <<10, 33, 14>>, <<10, 33, 15>>, <<10,
     33, 16>>, <<10, 34, 1>>, <<10, 34, 2>>, <<10, 34, 3>>, <<10, 34, 4>>,
     <<10, 34, 5>>, <<10, 34, 6>>, <<10, 34, 7>>, <<10, 34, 8>>, <<10, 34,
     9>>, <<10, 34, 10>>, <<10, 34, 11>>, <<10, 34, 12>>, <<10, 34, 13>>,
     <<10, 34, 14>>, <<10, 34, 15>>, <<10, 34, 16>>, <<10, 35, 5>>, <<10,
     35, 10>>, <<10, 35, 13>>, <<10, 37, 1>>, <<10, 37, 2>>, <<10, 37, 4>>,
     <<10, 37, 5>>, <<10, 37, 7>>, <<10, 37, 8>>, <<10, 37, 9>>, <<10, 37,
     10>>, <<10, 37, 11>>, <<10, 37, 14>>, <<10, 37, 15>>, <<10, 37, 16>>,
     <<10, 37, 17>>, <<10, 37, 18>>, <<10, 38, 1>>, <<10, 38, 2>>, <<10,
     38, 4>>, <<10, 38, 5>>, <<10, 38, 7>>, <<10, 38, 8>>, <<10, 38, 9>>,
     <<10, 38, 10>>, <<10, 38, 11>>, <<10, 38, 14>>, <<10, 38, 15>>, <<10,
     38, 16>>, <<10, 38, 18>>, <<10, 39, 1>>, <<10, 39, 2>>, <<10, 39, 3>>,
     <<10, 39, 4>>, <<10, 39, 5>>, <<10, 39, 6>>, <<10, 39, 7>>, <<10, 39,
     8>>, <<10, 39, 9>>, <<10, 39, 10>>, <<10, 39, 11>>, <<10, 39, 12>>,
     <<10, 39, 13>>, <<10, 39, 14>>, <<10, 39, 15>>, <<10, 39, 16>>, <<10,
     39, 17>>, <<10, 39, 18>>, <<10, 39, 19>>, <<10, 41, 1>>, <<10, 41,
     2>>, <<10, 41, 3>>, <<10, 41, 4>>, <<10, 41, 5>>, <<10, 41, 6>>, <<10,
     41, 7>>, <<10, 41, 8>>, <<10, 41, 9>>, <<10, 41, 10>>, <<10, 41, 11>>,
     <<10, 41, 12>>, <<10, 41, 13>>, <<10, 41, 14>>, <<10, 41, 15>>, <<10,
     41, 16>>, <<10, 41, 17>>, <<10, 41, 18>>, <<10, 41, 19>>, <<10, 41,
     20>>, <<10, 42, 3>>, <<10, 42, 6>>, <<10, 42, 12>>, <<30, 34, 1>>,
     <<30, 34, 2>>, <<30, 34, 4>>, <<30, 34, 7>>, <<30, 34, 8>>, <<30, 34,
     11>>, <<30, 34, 14>>, <<30, 34, 15>>, <<30, 34, 16>>, <<30, 37, 11>>,
     <<30, 38, 3>>, <<30, 38, 6>>, <<30, 38, 7>>, <<30, 38, 12>>, <<30, 38,
     14>>, <<30, 39, 11>>, <<30, 39, 15>>, <<30, 39, 19>>, <<30, 41, 15>>,
     <<30, 42, 3>>, <<30, 42, 6>>, <<30, 42, 12>>, <<30, 42, 17>>}

\* BasicStrokeCounter.count_strokes_fft(lap_data, stroke_type), with
\* dominant the bin of dominant_freq
CountStrokesFFT(data, style, rate, dominant) ==
    LET n == Len(data)
    IN  IF n < MinFFTSamples THEN CountStrokes(data, style, rate)
        ELSE IF InBand(n, style, rate) = {} THEN 0
        ELSE IF <<rate, n, dominant>> \in SpectralTruncatesBelow
             THEN dominant - 1
             ELSE dominant

\* weight, in tenths, from duration = len(lap_data) / sampling_rate
HybridWeight(n, rate) ==
    IF n < 15 * rate THEN 8 ELSE IF n < 30 * rate THEN 6 ELSE 4

\* int(weight * peak_count + (1 - weight) * fft_count), line 191, in
\* binary64: 1 - 0.8 is 0.19999999999999996 and the products and the sum are
\* rounded.  These are the <<weight, peak_count, fft_count>>, weights in
\* tenths and estimates in 0..20, whose exact weighted sum is a
\* whole number m while the rounded sum falls below m, so that int() gives
\* m - 1.  For every other triple int() gives the floor of the exact sum.
HybridTruncatesBelow ==
    {<<8, 0, 5>>, <<8, 0, 10>>, <<8, 0, 15>>, <<8, 0, 20>>, <<8, 1, 6>>,
     <<8, 1, 11>>, <<8, 1, 16>>, <<8, 2, 12>>, <<8, 4, 19>>, <<8, 5, 15>>,
     <<8, 5, 20>>, <<6, 6, 1>>, <<6, 12, 2>>, <<4, 1, 6>>, <<4, 2, 12>>}

\* max(0, int(weight * peak_count + (1 - weight) * fft_count))
HybridCount(peak, fft, n, rate) ==
    LET w     == HybridWeight(n, rate)
        exact == (w * peak + (10 - w) * fft) \div 10
    IN  Max2(0, IF <<w, peak, fft>> \in HybridTruncatesBelow
                THEN exact - 1
                ELSE exact)

----------------------------------------------------------------------------
(* Inputs of the stroke counters: a lap repeats a motif of rows. *)

MaxMotif == 3

MaxCntLen == 40

CntLens == {0, 9, 10, 11, 15, 29, 30, 31, MaxCntLen}

CntRates == {1, 10, 30}

CntRows == {<<0, 0, 0>>, <<0, 10, -10>>, <<0, -10, 20>>}

Motifs == UNION {[1..m -> CntRows] : m \in 1..MaxMotif}

MotifLap(n, motif) == [i \in 1..n |-> motif[((i - 1) % Len(motif)) + 1]]

\* A lap that rises by 1.0 per sample on the Y and Z axes, with a bump of
\* 1.5 at the Python indices in bumps: each bump is one local maximum.
RampBumps == {{}, {10}, {25}, {10, 25}}

RampLap(n, bumps) ==
    [i \in 1..n |->
        LET v == 10 * (i - 1) + (IF (i - 1) \in bumps THEN 15 ELSE 0)
        IN  <<0, v, v>>]

CntLaps ==
    {MotifLap(n, motif) : n \in CntLens, motif \in Motifs}
        \cup {RampLap(n, bumps) : n \in CntLens, bumps \in RampBumps}

CntInit ==
    /\ pc = "cnt_ready"
    /\ PipeIdle
    /\ SegUnused
    /\ sampling_rate \in CntRates
    /\ lap_data \in CntLaps
    /\ stroke_type \in StrokeTypes
    /\ CountIdle

\* BasicStrokeCounter.count_strokes, the whole call
CountStrokesBasic ==
    /\ pc = "cnt_ready"
    /\ stroke_count' = CountStrokes(lap_data, stroke_type, sampling_rate)
    /\ pc' = "cnt_basic_done"
    /\ UNCHANGED <<sampling_rate, accel, swimming_mask, closed_mask,
                   opened_mask, segments, laps, lap_data, stroke_type,
                   peak_count, fft_count, pipeVars,
                   svcVars>>

\* HybridStrokeCounter.count_strokes, the whole call
CountStrokesHybrid ==
    /\ pc = "cnt_ready"
    /\ peak_count' = CountStrokes(lap_data, stroke_type, sampling_rate)
    /\ \E dominant \in ArgmaxOutcomes(SelectAxis(lap_data, stroke_type),
                                      Len(lap_data), stroke_type, sampling_rate) :
          fft_count' = CountStrokesFFT(lap_data, stroke_type, sampling_rate,
                                       dominant)
    /\ stroke_count' = HybridCount(peak_count', fft_count', Len(lap_data),
                                   sampling_rate)
    /\ pc' = "cnt_hybrid_done"
    /\ UNCHANGED <<sampling_rate, accel, swimming_mask, closed_mask,
                   opened_mask, segments, laps, lap_data, stroke_type,
                   pipeVars,
                   svcVars>>

CntNext == CountStrokesBasic \/ CountStrokesHybrid

CntSpec == CntInit /\ [][CntNext]_vars

----------------------------------------------------------------------------
(* Claims about the stroke counters *)

\* C9: count_strokes, by peaks and hybrid, returns an integer >= 0 for every
\* lap and style, and exactly 0 for every lap of fewer than 10 samples.
C9_CountNonNegative ==
    pc \in {"cnt_basic_done", "cnt_hybrid_done"} =>
        /\ stroke_count \in Nat
        /\ Len(lap_data) < 10 => stroke_count = 0

\* a 9-sample lap that has a local maximum on the counted axis
C9_Witness ==
    /\ pc = "cnt_hybrid_done"
    /\ Len(lap_data) = 9
    /\ LocalMaxima(SelectAxis(lap_data, stroke_type)) # <<>>
    /\ stroke_count = 0

\* C10 as claimed: the hybrid count is at most T * max_freq_hz, with
\* T = n / sampling_rate.
C10_HybridBelowMaxRate ==
    pc = "cnt_hybrid_done" =>
        10 * sampling_rate * stroke_count
            <= Len(lap_data) * FrequencyRange(stroke_type)[2]

\* C10 amended: the peaks are at least d = max(3, int(sampling_rate /
\* max_freq_hz)) samples apart, and the hybrid count of a lap of n >= 10
\* samples is at most the larger of T * max_freq_hz and the number of
\* interior samples d apart, (n - 3) div d + 1.
C10_HybridBelowPeakCap ==
    pc = "cnt_hybrid_done" =>
        LET n == Len(lap_data)
            d == Max2(3, (10 * sampling_rate) \div FrequencyRange(stroke_type)[2])
            signal == Demean(SelectAxis(lap_data, stroke_type))
            peaks == FindPeaks(signal, MinDistance(stroke_type, sampling_rate))
        IN  /\ \A i \in 1..Len(peaks) - 1 : peaks[i + 1] - peaks[i] >= d
            /\ n >= 10 =>
                  \/ 10 * sampling_rate * stroke_count
                        <= n * FrequencyRange(stroke_type)[2]
                  \/ stroke_count <= (n - 3) \div d + 1

\* a lap whose count is above T * max_freq_hz and at the peak cap
C10_Witness ==
    /\ pc = "cnt_hybrid_done"
    /\ Len(lap_data) >= 10
    /\ 10 * sampling_rate * stroke_count
          > Len(lap_data) * FrequencyRange(stroke_type)[2]
    /\ stroke_count >= 2

\* C11: the spectral count equals the peak-detection count of the same lap
\* and style whenever the lap has fewer than 30 samples or no positive
\* frequency bin lies in the style's band.
C11_SpectralFallsBackToPeaks ==
    (/\ pc = "cnt_hybrid_done"
     /\ \/ Len(lap_data) < MinFFTSamples
        \/ InBand(Len(lap_data), stroke_type, sampling_rate) = {})
        => fft_count = peak_count

\* C12: the hybrid count is max(0, trunc(w * peak + (1 - w) * spectral))
\* with w = 0.8 for a lap under 15 s, 0.6 from 15 s to under 30 s and 0.4
\* from 30 s on, the duration being n / sampling_rate.
C12_HybridWeightedTrunc ==
    pc = "cnt_hybrid_done" =>
        LET n == Len(lap_data)
            w == IF n < 15 * sampling_rate THEN 8
                 ELSE IF n < 30 * sampling_rate THEN 6 ELSE 4
        IN  stroke_count =
                Max2(0, (w * peak_count + (10 - w) * fft_count) \div 10)

----------------------------------------------------------------------------
(* models.py: SwimLap and AnalysisResult.  A SwimLap is a record; its      *)
(* duration_sec is the pair <<n_samples, sampling_rate>>, the rational     *)
(* n_samples / sampling_rate that _create_lap stores.                      *)

SwimLap_ZeroBased(lap_number, start_idx, end_idx, style, count, rate, pool_length_m) ==
    [lap_number    |-> lap_number - 1,
     start_idx     |-> start_idx,
     end_idx       |-> end_idx,
     stroke_type   |-> style,
     stroke_count  |-> count,
     duration_sec  |-> <<end_idx - start_idx, rate>>,
     pool_length_m |-> pool_length_m]

\* SwimLap(...) as _create_lap builds it
SwimLap(lap_number, start_idx, end_idx, style, count, rate, pool_length_m) ==
    [lap_number    |-> lap_number,
     start_idx     |-> start_idx,
     end_idx       |-> end_idx,
     stroke_type   |-> style,
     stroke_count  |-> count,
     duration_sec  |-> <<end_idx - start_idx, rate>>,
     pool_length_m |-> pool_length_m]

\* SwimLap.swolf: int(self.duration_sec + self.stroke_count)
Swolf(lap) ==
    LET n    == lap.duration_sec[1]
        rate == lap.duration_sec[2]
    IN  (n + lap.stroke_count * rate) \div rate

\* SwimLap.distance_m
DistanceM(lap) == lap.pool_length_m

\* AnalysisResult.total_laps
TotalLaps(res) == Len(res.laps)

TotalDistanceM_OfResult(res) == res.pool_length_m

\* AnalysisResult.total_distance_m
TotalDistanceM(res) ==
    SumSeq([k \in 1..Len(res.laps) |-> DistanceM(res.laps[k])])

\* AnalysisResult.total_duration_sec, as <<samples, sampling_rate>>: every
\* lap of one result has the same sampling rate
TotalDurationSec(res, rate) ==
    <<SumSeq([k \in 1..Len(res.laps) |-> res.laps[k].duration_sec[1]]), rate>>

\* AnalysisResult.avg_swolf, as <<numerator, denominator>>
AvgSwolf(res) ==
    IF res.laps = <<>> THEN <<0, 1>>
    ELSE <<SumSeq([k \in 1..Len(res.laps) |-> Swolf(res.laps[k])]),
           Len(res.laps)>>

\* One step of get_stroke_breakdown's loop: the dict, as the sequence of its
\* <<key, value>> items in insertion order, after the lap's style is counted
BreakdownStep(breakdown, style) ==
    IF \E j \in 1..Len(breakdown) : breakdown[j][1] = style
    THEN [j \in 1..Len(breakdown) |->
             IF breakdown[j][1] = style
             THEN <<style, breakdown[j][2] + 1>>
             ELSE breakdown[j]]
    ELSE Append(breakdown, <<style, 1>>)

RECURSIVE BreakdownFrom(_, _, _)
BreakdownFrom(lap_seq, k, breakdown) ==
    IF k > Len(lap_seq) THEN breakdown
    ELSE BreakdownFrom(lap_seq, k + 1,
                       BreakdownStep(breakdown, lap_seq[k].stroke_type))

\* AnalysisResult.get_stroke_breakdown
GetStrokeBreakdown(res) == BreakdownFrom(res.laps, 1, <<>>)

PrimaryStroke_LastMax(res) ==
    LET breakdown == GetStrokeBreakdown(res)
    IN  IF breakdown = <<>> THEN "unknown"
        ELSE LET j == CHOOSE j \in 1..Len(breakdown) :
                          /\ \A i \in 1..Len(breakdown) :
                                breakdown[i][2] <= breakdown[j][2]
                          /\ \A i \in (j + 1)..Len(breakdown) :
                                breakdown[i][2] < breakdown[j][2]
             IN  breakdown[j][1]

\* AnalysisResult.primary_stroke: max(breakdown, key=breakdown.get) is the
\* first key, in the dict's order, whose value is the largest
PrimaryStroke(res) ==
    LET breakdown == GetStrokeBreakdown(res)
    IN  IF breakdown = <<>> THEN "unknown"
        ELSE LET j == CHOOSE j \in 1..Len(breakdown) :
                          /\ \A i \in 1..Len(breakdown) :
                                breakdown[i][2] <= breakdown[j][2]
                          /\ \A i \in 1..(j - 1) :
                                breakdown[i][2] < breakdown[j][2]
             IN  breakdown[j][1]

----------------------------------------------------------------------------
(* Inputs of the derived properties: results as analyze() builds them, one *)
(* pool length for all laps, lap numbers 1, 2, ..., ranges in order.       *)

MaxLaps == 3

ResRates == {1, 2, 3}

PoolLengths == {25, 50}

\* <<style, stroke count, samples>> of a lap: durations of 20 s exactly, of
\* 10 s and a half (or the next sample), 10 s and one sample, 10 s exactly
\* and one sample under 31 s
LapKinds(rate) ==
    {<<"freestyle", 18, 20 * rate>>,
     <<"freestyle", 0, 10 * rate + (rate + 1) \div 2>>,
     <<"backstroke", 7, 10 * rate + 1>>,
     <<"breaststroke", 18, 20 * rate>>,
     <<"unknown", 0, 10 * rate>>,
     <<"butterfly", 3, 31 * rate - 1>>}

RECURSIVE LapsOfKinds(_, _, _, _, _)
LapsOfKinds(kinds, k, start, rate, pool) ==
    IF k > Len(kinds) THEN <<>>
    ELSE <<SwimLap(k, start, start + kinds[k][3], kinds[k][1], kinds[k][2],
                   rate, pool)>>
            \o LapsOfKinds(kinds, k + 1, start + kinds[k][3] + 7 * rate,
                           rate, pool)

\* AnalysisResult(...) as analyze() builds it; session_id and processed_at
\* are not modelled
AnalysisResult(pool, lap_seq, f_accel, f_gyro) ==
    [returned       |-> TRUE,
     pool_length_m  |-> pool,
     laps           |-> lap_seq,
     filtered_accel |-> f_accel,
     filtered_gyro  |-> f_gyro]

ResInit ==
    /\ pc = "res_ready"
    /\ SegUnused
    /\ LapIdle
    /\ CallIdle
    /\ summary = NoSummary
    /\ sampling_rate \in ResRates
    /\ \E pool \in PoolLengths, m \in 0..MaxLaps :
          \E kinds \in [1..m -> LapKinds(sampling_rate)] :
              result = AnalysisResult(pool,
                           LapsOfKinds(kinds, 1, 0, sampling_rate, pool),
                           NoArray, NoArray)

\* reading lap.swolf of every lap of the result
ReadSwolf ==
    /\ pc = "res_ready"
    /\ summary' = [read  |-> "swolf",
                   swolf |-> [k \in 1..Len(result.laps) |->
                                 Swolf(result.laps[k])]]
    /\ pc' = "res_read"
    /\ UNCHANGED <<sampling_rate, accel, swimming_mask, closed_mask,
                   opened_mask, segments, laps, lap_data, stroke_type,
                   peak_count, fft_count, stroke_count, session, order,
                   filtered_accel, filtered_gyro, lap_index, swim_laps,
                   calls, fail_at, raised, result, raw_data,
                   svcVars>>

\* reading total_laps, total_distance_m, total_duration_sec and avg_swolf
ReadTotals ==
    /\ pc = "res_ready"
    /\ summary' = [read               |-> "totals",
                   total_laps         |-> TotalLaps(result),
                   total_distance_m   |-> TotalDistanceM(result),
                   total_duration_sec |-> TotalDurationSec(result,
                                                           sampling_rate),
                   avg_swolf          |-> AvgSwolf(result)]
    /\ pc' = "res_read"
    /\ UNCHANGED <<sampling_rate, accel, swimming_mask, closed_mask,
                   opened_mask, segments, laps, lap_data, stroke_type,
                   peak_count, fft_count, stroke_count, session, order,
                   filtered_accel, filtered_gyro, lap_index, swim_laps,
                   calls, fail_at, raised, result, raw_data,
                   svcVars>>

\* reading primary_stroke
ReadPrimaryStroke ==
    /\ pc = "res_ready"
    /\ summary' = [read           |-> "primary_stroke",
                   breakdown      |-> GetStrokeBreakdown(result),
                   primary_stroke |-> PrimaryStroke(result)]
    /\ pc' = "res_read"
    /\ UNCHANGED <<sampling_rate, accel, swimming_mask, closed_mask,
                   opened_mask, segments, laps, lap_data, stroke_type,
                   peak_count, fft_count, stroke_count, session, order,
                   filtered_accel, filtered_gyro, lap_index, swim_laps,
                   calls, fail_at, raised, result, raw_data,
                   svcVars>>

ResNext == ReadSwolf \/ ReadTotals \/ ReadPrimaryStroke

ResSpec == ResInit /\ [][ResNext]_vars

----------------------------------------------------------------------------
(* Claims about the derived properties *)

\* round(x) of x = n / rate to the nearest whole number, a half going up
RoundHalfUp(n, rate) == (2 * n + rate) \div (2 * rate)

\* round(x) of x = n / rate as Python rounds, a half going to the even side
RoundHalfEven(n, rate) ==
    LET q == n \div rate
        r == n % rate
    IN  IF 2 * r < rate THEN q
        ELSE IF 2 * r > rate THEN q + 1
        ELSE IF q % 2 = 0 THEN q ELSE q + 1

\* C13: swolf of every lap is round(duration_sec) + stroke_count, the
\* duration rounded to the nearest second (either way of rounding a half
\* is accepted here).
C13_SwolfRoundsDuration ==
    (pc = "res_read" /\ summary.read = "swolf") =>
        \A k \in 1..Len(result.laps) :
            LET lap == result.laps[k]
                n   == lap.duration_sec[1]
            IN  summary.swolf[k] \in
                    {RoundHalfUp(n, sampling_rate) + lap.stroke_count,
                     RoundHalfEven(n, sampling_rate) + lap.stroke_count}

\* C14: total_laps is the number of laps, total_distance_m is
\* pool_length_m * total_laps, total_duration_sec is the sum of the lap
\* durations and avg_swolf is the mean of the laps' swolf (0 with no laps).
C14_Aggregates ==
    (pc = "res_read" /\ summary.read = "totals") =>
        LET n == Len(result.laps)
        IN  /\ summary.total_laps = n
            /\ summary.total_distance_m = result.pool_length_m * n
            /\ summary.total_duration_sec[1] * sampling_rate =
                   summary.total_duration_sec[2] *
                       SumSeq([k \in 1..n |-> result.laps[k].end_idx
                                              - result.laps[k].start_idx])
            /\ n = 0 => summary.avg_swolf[1] = 0
            /\ n > 0 =>
                   summary.avg_swolf[1] * n =
                       summary.avg_swolf[2] *
                           SumSeq([k \in 1..n |-> Swolf(result.laps[k])])

\* totals read from a result of three laps
C14_Witness ==
    /\ pc = "res_read"
    /\ summary.read = "totals"
    /\ Len(result.laps) = 3
    /\ summary.total_distance_m = 3 * result.pool_length_m
    /\ summary.avg_swolf[1] > 0

\* how many laps of the result have the style
LapsOfStyle(style) ==
    Cardinality({k \in 1..Len(result.laps) :
                    result.laps[k].stroke_type = style})

\* the number of the first lap with the style
FirstLapOfStyle(style) ==
    CHOOSE k \in 1..Len(result.laps) :
        /\ result.laps[k].stroke_type = style
        /\ \A j \in 1..(k - 1) : result.laps[j].stroke_type # style

\* C15: primary_stroke is a style with the most laps, among those the one
\* whose first lap comes earliest, and unknown when there are no laps.
C15_PrimaryStroke ==
    (pc = "res_read" /\ summary.read = "primary_stroke") =>
        LET p == summary.primary_stroke
        IN  IF result.laps = <<>> THEN p = "unknown"
            ELSE /\ LapsOfStyle(p) > 0
                 /\ \A s \in StrokeTypes : LapsOfStyle(s) <= LapsOfStyle(p)
                 /\ \A s \in StrokeTypes :
                        (s # p /\ LapsOfStyle(s) = LapsOfStyle(p)) =>
                            FirstLapOfStyle(p) < FirstLapOfStyle(s)

\* two styles tie and the primary one is not the style of the last lap
C15_Witness ==
    /\ pc = "res_read"
    /\ summary.read = "primary_stroke"
    /\ Len(result.laps) = 3
    /\ \E s \in StrokeTypes :
          /\ s # summary.primary_stroke
          /\ LapsOfStyle(s) = LapsOfStyle(summary.primary_stroke)
          /\ result.laps[3].stroke_type = s

----------------------------------------------------------------------------
(* preprocessor.py: SwimBITFilter.  An array is a record of its number of  *)
(* dimensions and its rows: numbers for shape (N,), triples for (N, 3).    *)
(* The taps and the filtered values are real numbers and are not computed: *)
(* a filtered array is any array of the input's shape out of a bounded     *)
(* family.                                                                 *)

Array(ndim, rows) == [ndim |-> ndim, data |-> rows]

Shape(arr) == IF arr.ndim = 1 THEN <<Len(arr.data)>> ELSE <<Len(arr.data), 3>>

\* The orders tried: SwimBITFilter(order=2) and the default order 48
FilterOrders == {2, 48}

\* scipy.signal.filtfilt(taps, 1.0, data) pads both ends with
\* padlen = 3 * max(len(a), len(b)) = 3 * (order + 1) samples, and raises
\* ValueError unless the input is longer than padlen.
PadLen(ord) == 3 * (ord + 1)

MaxPipeRuns == 3

PipeRunLens == {7, 10, 30}

\* Series of up to MaxPipeRuns runs, swimming and rest in turn.
PipeSeries ==
    {Expand(lens, TRUE, 1) :
        lens \in UNION {[1..m -> PipeRunLens] : m \in 1..MaxPipeRuns}}

\* The arrays filtfilt may return for an input longer than padlen: of a
\* constant input a constant array, of any other input any series of the
\* family as well
FilteredOutcomes(arr) ==
    LET n        == Len(arr.data)
        constant == \A i \in 1..n : arr.data[i] = arr.data[1]
    IN  IF arr.ndim = 1
        THEN {Array(1, [i \in 1..n |-> v]) : v \in {0, 98}}
        ELSE {Array(2, rows) :
                 rows \in (IF constant THEN {}
                           ELSE {a \in PipeSeries : Len(a) = n})
                          \cup {[i \in 1..n |-> row] :
                                   row \in {RestSample, SwimSample}}}

\* SwimBITFilter.process(data, sampling_rate): the outcomes of one call, the
\* exception that leaves it (or "none") and the array returned
Process(arr, ord) ==
    IF Len(arr.data) <= ord + 1
    THEN {[raised |-> "none", out |-> arr]}
    ELSE IF Len(arr.data) <= PadLen(ord)
    THEN {[raised |-> "ValueError", out |-> NoArray]}
    ELSE {[raised |-> "none", out |-> o] : o \in FilteredOutcomes(arr)}

----------------------------------------------------------------------------
(* Inputs of the filter *)

MaxFilterLen == 148

FilterLens == {0, 1, 3, 4, 9, 10, 27, 49, 50, 147, MaxFilterLen}

FilterInit ==
    /\ pc = "flt_ready"
    /\ SegUnused
    /\ SvcIdle
    /\ LapIdle
    /\ sampling_rate = 30
    /\ session = NoSession
    /\ order \in FilterOrders
    /\ filtered_accel = NoArray
    /\ filtered_gyro = NoArray
    /\ lap_index = 0
    /\ swim_laps = <<>>
    /\ calls = <<>>
    /\ fail_at = 0
    /\ raised = "none"
    /\ result = NoResult
    /\ summary = NoSummary
    /\ \E n \in FilterLens :
          \/ \E v \in {0, 98, 248} : raw_data = Array(1, [i \in 1..n |-> v])
          \/ \E row \in {RestSample, SwimSample} :
                raw_data = Array(2, [i \in 1..n |-> row])

\* SwimBITFilter(order).process(data, sampling_rate), the whole call
ProcessData ==
    /\ pc = "flt_ready"
    /\ \E outcome \in Process(raw_data, order) :
          /\ raised' = outcome.raised
          /\ filtered_accel' = outcome.out
    /\ pc' = "flt_done"
    /\ UNCHANGED <<sampling_rate, accel, swimming_mask, closed_mask,
                   opened_mask, segments, laps, lap_data, stroke_type,
                   peak_count, fft_count, stroke_count, session, order,
                   filtered_gyro, lap_index, swim_laps, calls, fail_at,
                   result, summary, raw_data,
                   svcVars>>

FilterNext == ProcessData

FilterSpec == FilterInit /\ [][FilterNext]_vars

\* C20: process returns its input unchanged for every input of at most
\* order + 1 samples, and for every longer input of shape (N,) or (N, 3) an
\* array of the input's shape.
C20_FilterKeepsShape ==
    pc = "flt_done" =>
        /\ raised = "none"
        /\ Len(raw_data.data) <= order + 1 => filtered_accel = raw_data
        /\ Shape(filtered_accel) = Shape(raw_data)

----------------------------------------------------------------------------
(* pipeline.py: AnalysisPipeline.analyze, one action per stage.  The       *)
(* components are injected (Strategy pattern): fail_at = k > 0 is a        *)
(* pipeline whose k-th component call raises; the other calls are those of *)
(* the default components SwimBITFilter(order), PitchRollSegmenter,        *)
(* EnergyClassifier and BasicStrokeCounter.                                *)

\* SessionData with its SensorData: the timestamps are kept by their number
SessionData(n_timestamps, accel_arr, gyro_arr, pool_length_m) ==
    [n_timestamps  |-> n_timestamps,
     accel         |-> accel_arr,
     gyro          |-> gyro_arr,
     pool_length_m |-> pool_length_m]

\* One component call, as the log keeps it: the component's method, the lap
\* it is made for (0 before the loop), its array argument, and the style
\* that classify returned or count_strokes was given
Call(op, lap, arg, style) ==
    [op |-> op, lap |-> lap, arg |-> arg, style |-> style]

\* Does the component call that has just been logged raise?
Fails(log) == fail_at = Len(log)

LapAccel_Raw(filtered, seg) == SubSeq(session.accel.data, seg[1] + 1, seg[2])

\* lap_accel = filtered_accel[start_idx:end_idx]
LapAccel(filtered, seg) == SubSeq(filtered.data, seg[1] + 1, seg[2])

\* Step 1, first half: filtered_accel = self.preprocessor.process(accel)
AnalyzeFilterAccel ==
    /\ pc = "pipe_start"
    /\ calls' = Append(calls, Call("process", 0, session.accel, "none"))
    /\ \E outcome \in Process(session.accel, order) :
          IF Fails(calls') \/ outcome.raised # "none"
          THEN /\ raised' = (IF Fails(calls') THEN "injected"
                             ELSE outcome.raised)
               /\ pc' = "pipe_raised"
               /\ UNCHANGED filtered_accel
          ELSE /\ filtered_accel' = outcome.out
               /\ pc' = "pipe_accel_filtered"
               /\ UNCHANGED raised
    /\ UNCHANGED <<sampling_rate, accel, swimming_mask, closed_mask,
                   opened_mask, segments, laps, lap_data, stroke_type,
                   peak_count, fft_count, stroke_count, session, order,
                   filtered_gyro, lap_index, swim_laps, fail_at, result,
                   summary, raw_data,
                   svcVars>>

\* Step 1, second half: filtered_gyro = self.preprocessor.process(gyro)
AnalyzeFilterGyro ==
    /\ pc = "pipe_accel_filtered"
    /\ calls' = Append(calls, Call("process", 0, session.gyro, "none"))
    /\ \E outcome \in Process(session.gyro, order) :
          IF Fails(calls') \/ outcome.raised # "none"
          THEN /\ raised' = (IF Fails(calls') THEN "injected"
                             ELSE outcome.raised)
               /\ pc' = "pipe_raised"
               /\ UNCHANGED filtered_gyro
          ELSE /\ filtered_gyro' = outcome.out
               /\ pc' = "pipe_filtered"
               /\ UNCHANGED raised
    /\ UNCHANGED <<sampling_rate, accel, swimming_mask, closed_mask,
                   opened_mask, segments, laps, lap_data, stroke_type,
                   peak_count, fft_count, stroke_count, session, order,
                   filtered_accel, lap_index, swim_laps, fail_at, result,
                   summary, raw_data,
                   svcVars>>

\* Step 2: lap_segments = self.segmenter.segment(filtered_sensor_data, rate);
\* accel_data[:, 0] of an array of shape (N,) raises IndexError
AnalyzeSegment ==
    /\ pc = "pipe_filtered"
    /\ calls' = Append(calls, Call("segment", 0, filtered_accel, "none"))
    /\ IF Fails(calls') \/ filtered_accel.ndim # 2
       THEN /\ raised' = (IF Fails(calls') THEN "injected" ELSE "IndexError")
            /\ pc' = "pipe_raised"
            /\ UNCHANGED <<accel, swimming_mask, closed_mask, opened_mask,
                           segments, laps>>
       ELSE LET mask   == SwimmingMask(filtered_accel.data)
                closed == MorphologicalClose(mask, CloseSize(sampling_rate))
                opened == MorphologicalOpen(closed, OpenSize(sampling_rate))
                segs   == FindSegments(opened)
            IN  /\ accel' = filtered_accel.data
                /\ swimming_mask' = mask
                /\ closed_mask' = closed
                /\ opened_mask' = opened
                /\ segments' = segs
                /\ laps' = FilterShortSegments(segs, MinSamples(sampling_rate))
                /\ pc' = "pipe_loop"
                /\ UNCHANGED raised
    /\ UNCHANGED <<sampling_rate, lap_data, stroke_type, peak_count,
                   fft_count, stroke_count, session, order, filtered_accel,
                   filtered_gyro, lap_index, swim_laps, fail_at, result,
                   summary, raw_data,
                   svcVars>>

\* Step 3, _create_lap: stroke_type = self.classifier.classify(lap_accel)
AnalyzeClassify ==
    /\ pc = "pipe_loop"
    /\ lap_index < Len(laps)
    /\ lap_data' = LapAccel(filtered_accel, laps[lap_index + 1])
    /\ IF fail_at = Len(calls) + 1
       THEN /\ calls' = Append(calls, Call("classify", lap_index + 1,
                                           lap_data', "none"))
            /\ raised' = "injected"
            /\ pc' = "pipe_raised"
            /\ UNCHANGED stroke_type
       ELSE /\ stroke_type' = Classify(lap_data')
            /\ calls' = Append(calls, Call("classify", lap_index + 1,
                                           lap_data', stroke_type'))
            /\ pc' = "pipe_classified"
            /\ UNCHANGED raised
    /\ UNCHANGED <<sampling_rate, accel, swimming_mask, closed_mask,
                   opened_mask, segments, laps, peak_count, fft_count,
                   stroke_count, session, order, filtered_accel,
                   filtered_gyro, lap_index, swim_laps, fail_at, result,
                   summary, raw_data,
                   svcVars>>

\* Step 3, the rest of _create_lap and of the loop body: count_strokes, the
\* duration, the SwimLap, laps.append(lap)
AnalyzeCount ==
    /\ pc = "pipe_classified"
    /\ calls' = Append(calls, Call("count_strokes", lap_index + 1, lap_data,
                                   stroke_type))
    /\ IF Fails(calls')
       THEN /\ raised' = "injected"
            /\ pc' = "pipe_raised"
            /\ UNCHANGED <<stroke_count, swim_laps, lap_index>>
       ELSE /\ stroke_count' = CountStrokes(lap_data, stroke_type,
                                            sampling_rate)
            /\ swim_laps' =
                   Append(swim_laps,
                          SwimLap(lap_index + 1, laps[lap_index + 1][1],
                                  laps[lap_index + 1][2], stroke_type,
                                  stroke_count', sampling_rate,
                                  session.pool_length_m))
            /\ lap_index' = lap_index + 1
            /\ pc' = "pipe_loop"
            /\ UNCHANGED raised
    /\ UNCHANGED <<sampling_rate, accel, swimming_mask, closed_mask,
                   opened_mask, segments, laps, lap_data, stroke_type,
                   peak_count, fft_count, session, order, filtered_accel,
                   filtered_gyro, fail_at, result, summary, raw_data,
                   svcVars>>

Returns_AfterRaise == pc \in {"pipe_loop", "pipe_raised"}

\* analyze() reaches its return statement: the loop has run out and no
\* exception is on its way out
Returns == pc = "pipe_loop" /\ lap_index = Len(laps)

\* Step 4: result = AnalysisResult(...); return result
AnalyzeReturn ==
    /\ Returns
    /\ result' = AnalysisResult(session.pool_length_m, swim_laps,
                                filtered_accel, filtered_gyro)
    /\ pc' = "pipe_returned"
    /\ UNCHANGED <<sampling_rate, accel, swimming_mask, closed_mask,
                   opened_mask, segments, laps, lap_data, stroke_type,
                   peak_count, fft_count, stroke_count, session, order,
                   filtered_accel, filtered_gyro, lap_index, swim_laps,
                   calls, fail_at, raised, summary, raw_data,
                   svcVars>>

PipeNext ==
    \/ AnalyzeFilterAccel
    \/ AnalyzeFilterGyro
    \/ AnalyzeSegment
    \/ AnalyzeClassify
    \/ AnalyzeCount
    \/ AnalyzeReturn

----------------------------------------------------------------------------
(* Inputs of analyze: sessions at 1 Hz whose channels agree in length or   *)
(* not, an accel of shape (N, 3) or (N,), a pipeline with or without a     *)
(* raising component.                                                      *)

PipeRates == {1}

\* The component calls of an analysis of two laps are numbered 1..7.
FailPoints == 0..7

Zeros(n) == [i \in 1..n |-> <<0, 0, 0>>]

PipeAccels ==
    {Array(2, a) : a \in PipeSeries}
        \cup {Array(2, <<SwimSample, SwimSample, SwimSample>>),
              Array(1, [i \in 1..20 |-> 248]),
              Array(1, <<248, 248, 248>>)}

\* The session with the accel array and a gyro and timestamps of its length
MatchedSession(accel_arr) ==
    LET n == Len(accel_arr.data)
    IN  SessionData(n, accel_arr, Array(2, Zeros(n)), 25)

\* The sessions with the accel array and a longer gyro, or one timestamp
\* more
MismatchedSessions(accel_arr) ==
    LET n == Len(accel_arr.data)
    IN  {SessionData(n, accel_arr, Array(2, Zeros(n + 2)), 25),
         SessionData(n + 1, accel_arr, Array(2, Zeros(n)), 25)}

PipeInit ==
    /\ pc = "pipe_start"
    /\ SegUnused
    /\ SvcIdle
    /\ LapIdle
    /\ sampling_rate \in PipeRates
    /\ order \in FilterOrders
    /\ \E accel_arr \in PipeAccels :
          \/ session = MatchedSession(accel_arr) /\ fail_at \in FailPoints
          \/ session \in MismatchedSessions(accel_arr) /\ fail_at = 0
    /\ filtered_accel = NoArray
    /\ filtered_gyro = NoArray
    /\ lap_index = 0
    /\ swim_laps = <<>>
    /\ calls = <<>>
    /\ raised = "none"
    /\ result = NoResult
    /\ summary = NoSummary
    /\ raw_data = NoArray

PipeSpec == PipeInit /\ [][PipeNext]_vars

----------------------------------------------------------------------------
(* Claims about analyze *)

\* The method analyze calls as its j-th component call, and the lap it
\* calls it for
StageOp(j) ==
    IF j <= 2 THEN "process"
    ELSE IF j = 3 THEN "segment"
    ELSE IF j % 2 = 0 THEN "classify" ELSE "count_strokes"

StageLap(j) == IF j <= 3 THEN 0 ELSE (j - 2) \div 2

\* C16: within one analyze call the stages run in order, each once: the two
\* filter calls (accel, gyro), then segment on the filtered accel, then for
\* each lap in segment order classify and then count_strokes, which gets the
\* same filtered slice and the style classify returned; the result is built
\* only after the last lap.
C16_StagesInOrder ==
    /\ \A j \in 1..Len(calls) :
          /\ calls[j].op = StageOp(j)
          /\ calls[j].lap = StageLap(j)
          /\ j = 1 => calls[j].arg = session.accel
          /\ j = 2 => calls[j].arg = session.gyro
          /\ j = 3 => calls[j].arg = filtered_accel
          /\ (j > 3 /\ j % 2 = 0) =>
                 /\ StageLap(j) <= Len(laps)
                 /\ calls[j].arg =
                        SubSeq(filtered_accel.data, laps[StageLap(j)][1] + 1,
                               laps[StageLap(j)][2])
          /\ (j > 3 /\ j % 2 = 1) =>
                 /\ calls[j].arg = calls[j - 1].arg
                 /\ calls[j].style = calls[j - 1].style
                 /\ calls[j].style = Classify(calls[j].arg)
    /\ pc = "pipe_returned" =>
          /\ Len(calls) = 3 + 2 * Len(laps)
          /\ raised = "none"

\* an analysis of two laps of different styles on an accel the filter
\* changed
C16_Witness ==
    /\ pc = "pipe_returned"
    /\ Len(calls) = 7
    /\ filtered_accel # session.accel
    /\ calls[5].style # calls[7].style
    /\ calls[5].arg # calls[7].arg

\* C17: the result of analyze has one lap per segment, the k-th lap has
\* lap_number k and the k-th range, the ranges are in order and do not
\* overlap, and duration_sec is (end_idx - start_idx) / sampling_rate.
C17_LapsMatchSegments ==
    pc = "pipe_returned" =>
        /\ result.returned
        /\ Len(result.laps) = Len(laps)
        /\ \A k \in 1..Len(result.laps) :
              LET lap == result.laps[k]
              IN  /\ lap.lap_number = k
                  /\ <<lap.start_idx, lap.end_idx>> = laps[k]
                  /\ lap.duration_sec[1] * sampling_rate =
                         (lap.end_idx - lap.start_idx) * lap.duration_sec[2]
                  /\ lap.duration_sec[2] > 0
        /\ \A k \in 1..(Len(result.laps) - 1) :
              /\ result.laps[k].start_idx <= result.laps[k + 1].start_idx
              /\ result.laps[k].end_idx <= result.laps[k + 1].start_idx

\* a result of two laps
C17_Witness ==
    /\ pc = "pipe_returned"
    /\ Len(laps) = 2
    /\ Len(result.laps) = 2
    /\ result.laps[2].lap_number = 2

\* C18: when a component raises at any point of an analyze call, the error
\* leaves the call and no AnalysisResult is returned, not even one of the
\* laps already built.
C18_ErrorsPropagate ==
    raised # "none" => result = NoResult

\* the classifier or the counter raises on the second lap
C18_Witness ==
    /\ pc = "pipe_raised"
    /\ raised = "injected"
    /\ Len(swim_laps) = 1
    /\ result = NoResult

\* The channels of the session differ in length, or one is not of shape
\* (N, 3).
ShapeError(sess) ==
    \/ sess.accel.ndim # 2
    \/ sess.gyro.ndim # 2
    \/ Len(sess.gyro.data) # Len(sess.accel.data)
    \/ sess.n_timestamps # Len(sess.accel.data)

\* C19: analyze of a session whose channel lengths differ, or whose arrays
\* have the wrong dimensionality, fails before the filter, the segmenter,
\* the classifier or the counter is invoked, and returns no result.
C19_ShapeErrorsFailFast ==
    (session # NoSession /\ ShapeError(session)) =>
        /\ calls = <<>>
        /\ result = NoResult

----------------------------------------------------------------------------
(* preprocessor.py, _get_filter_taps: one SwimBITFilter shared by callers *)

\* A fraction <<a, b>> with b > 0 is below another
FracLess(x, y) == x[1] * y[2] < y[1] * x[2]

\* cutoff_hz / (0.5 * sampling_rate) of a cutoff in 0.1 Hz, as a fraction
NormalizedCutoff(cutoff, rate) == <<2 * cutoff, 10 * rate>>

ClampCutoff_Unclamped(x) == x

\* min(max(normalized_cutoff, 0.01), 0.99)
ClampCutoff(x) ==
    LET lifted == IF FracLess(x, <<1, 100>>) THEN <<1, 100>> ELSE x
    IN  IF FracLess(<<99, 100>>, lifted) THEN <<99, 100>> ELSE lifted

\* firwin(numtaps, cutoff, window='hamming') is a function of its two
\* arguments: the taps are named by them
FirWin(numtaps, cutoff) == [numtaps |-> numtaps, cutoff |-> cutoff]

\* The coefficients _get_filter_taps designs on a cache miss
DesignTaps(ord, cutoff, rate) ==
    FirWin(ord + 1, ClampCutoff(NormalizedCutoff(cutoff, rate)))

NoTaps == [numtaps |-> 0]

Threads == {1, 2}

\* process() calls made per caller
MaxCalls == 2

\* Sampling rates in Hz: 6 Hz puts a 3 Hz cutoff at the Nyquist frequency
\* (clamped to 0.99), 1000 Hz puts it at 0.006 (clamped to 0.01)
CacheRates == {6, 30, 1000}

CacheCutoffs == {5, 30}

CacheInit ==
    /\ pc = "cache"
    /\ SegUnused
    /\ LapIdle
    /\ sampling_rate = 30
    /\ session = NoSession
    /\ order \in FilterOrders
    /\ filtered_accel = NoArray
    /\ filtered_gyro = NoArray
    /\ lap_index = 0
    /\ swim_laps = <<>>
    /\ calls = <<>>
    /\ fail_at = 0
    /\ raised = "none"
    /\ result = NoResult
    /\ summary = NoSummary
    /\ raw_data = NoArray
    /\ ApiIdle
    /\ RefineIdle
    /\ NullIdle
    /\ DetIdle
    /\ SliceIdle
    /\ cutoff_hz \in CacheCutoffs
    /\ taps_cache = <<>>
    /\ threads = [t \in Threads |->
                     [at |-> "idle", rate |-> 0, taps |-> NoTaps, done |-> 0]]
    /\ designs = [r \in CacheRates |-> 0]
    /\ interleaved \in BOOLEAN

\* process(data, sampling_rate) is entered; an input of at most order + 1
\* samples is returned as it is, without a look at the cache
EnterProcess(t) ==
    /\ threads[t].at = "idle"
    /\ threads[t].done < MaxCalls
    /\ interleaved \/ \A u \in Threads : threads[u].at = "idle"
    /\ \E rate \in CacheRates, short \in BOOLEAN :
          threads' = [threads EXCEPT ![t] =
                         IF short
                         THEN [@ EXCEPT !.done = @ + 1]
                         ELSE [@ EXCEPT !.at = "lookup", !.rate = rate,
                                        !.taps = NoTaps]]
    /\ UNCHANGED <<pc, coreVars, cacheFrame, cutoff_hz, taps_cache, designs, interleaved>>

\* if sampling_rate not in self._filter_taps_cache
LookUp(t) ==
    /\ threads[t].at = "lookup"
    /\ threads' = [threads EXCEPT ![t].at =
                      IF threads[t].rate \in DOMAIN taps_cache
                      THEN "fetch" ELSE "design"]
    /\ UNCHANGED <<pc, coreVars, cacheFrame, cutoff_hz, taps_cache, designs, interleaved>>

\* taps = firwin(numtaps=self.order + 1, cutoff=normalized_cutoff, ...)
Design(t) ==
    /\ threads[t].at = "design"
    /\ threads' = [threads EXCEPT
                      ![t].at = "store",
                      ![t].taps = DesignTaps(order, cutoff_hz,
                                             threads[t].rate)]
    /\ designs' = [designs EXCEPT ![threads[t].rate] = @ + 1]
    /\ UNCHANGED <<pc, coreVars, cacheFrame, cutoff_hz, taps_cache, interleaved>>

\* self._filter_taps_cache[sampling_rate] = taps
Store(t) ==
    /\ threads[t].at = "store"
    /\ taps_cache' =
          [r \in DOMAIN taps_cache \cup {threads[t].rate} |->
              IF r = threads[t].rate THEN threads[t].taps ELSE taps_cache[r]]
    /\ threads' = [threads EXCEPT ![t].at = "fetch", ![t].taps = NoTaps]
    /\ UNCHANGED <<pc, coreVars, cacheFrame, cutoff_hz, designs, interleaved>>

\* return self._filter_taps_cache[sampling_rate]
Fetch(t) ==
    /\ threads[t].at = "fetch"
    /\ threads' = [threads EXCEPT
                      ![t].at = "filter",
                      ![t].taps = taps_cache[threads[t].rate]]
    /\ UNCHANGED <<pc, coreVars, cacheFrame, cutoff_hz, taps_cache, designs, interleaved>>

\* return filtfilt(taps, 1.0, data, ...)
Filter(t) ==
    /\ threads[t].at = "filter"
    /\ threads' = [threads EXCEPT ![t].at = "idle", ![t].done = @ + 1]
    /\ UNCHANGED <<pc, coreVars, cacheFrame, cutoff_hz, taps_cache, designs, interleaved>>

CacheNext ==
    \E t \in Threads :
        \/ EnterProcess(t)
        \/ LookUp(t)
        \/ Design(t)
        \/ Store(t)
        \/ Fetch(t)
        \/ Filter(t)

CacheSpec == CacheInit /\ [][CacheNext]_vars

\* C21: a cache entry, once present, is the design for (order, cutoff, rate)
\* with the normalized cutoff clamped to [0.01, 0.99], in every interleaving
\* of the callers; every call filters with the design for its rate; and
\* when calls do not overlap the design runs at most once per rate.
C21_CacheHoldsTheDesign ==
    pc = "cache" =>
        LET expected(rate) ==
                LET x == <<2 * cutoff_hz, 10 * rate>>
                    c == IF x[1] * 100 < x[2] THEN <<1, 100>>
                         ELSE IF x[1] * 100 > 99 * x[2] THEN <<99, 100>>
                         ELSE x
                IN  [numtaps |-> order + 1, cutoff |-> c]
        IN  /\ \A r \in DOMAIN taps_cache : taps_cache[r] = expected(r)
            /\ \A t \in Threads :
                  threads[t].at = "filter" =>
                      threads[t].taps = expected(threads[t].rate)
            /\ ~interleaved => \A r \in CacheRates : designs[r] <= 1

\* two callers raced to design the same clamped rate, and one of them
\* filters with the cached entry
C21_Witness ==
    /\ pc = "cache"
    /\ interleaved
    /\ \E r \in CacheRates :
          /\ designs[r] = 2
          /\ r \in DOMAIN taps_cache
          /\ taps_cache[r].cutoff \in {<<1, 100>>, <<99, 100>>}
          /\ \E t \in Threads :
                threads[t].at = "filter" /\ threads[t].rate = r

----------------------------------------------------------------------------
(* models.py, SensorData.slice *)

\* The fields of a SensorData; each array has a buffer of its own
Fields == <<"timestamps", "accel", "gyro", "mag", "pressure">>

FieldSet == {Fields[b] : b \in 1..Len(Fields)}

BufferOf(f) == CHOOSE b \in 1..Len(Fields) : Fields[b] = f

\* An ndarray: n cells (rows) of a buffer from offset off
View(buf, off, n) == [buf |-> buf, off |-> off, len |-> n]

\* arr[start_idx:end_idx] for 0 <= start_idx, end_idx: basic slicing
\* returns a view of the same buffer; indices past the end are clipped
Slice(arr, start_idx, end_idx) ==
    LET lo == IF start_idx < arr.len THEN start_idx ELSE arr.len
        hi == IF end_idx < arr.len THEN end_idx ELSE arr.len
    IN  View(arr.buf, arr.off + lo, IF hi > lo THEN hi - lo ELSE 0)

\* The cells an array shows
Cells(mem, arr) ==
    IF arr = None THEN <<>>
    ELSE SubSeq(mem[arr.buf], arr.off + 1, arr.off + arr.len)

\* The cells of every array of a SensorData
Contents(mem, obj) == [f \in FieldSet |-> Cells(mem, obj[f])]

MaxSliceLen == 3

\* The value a write stores; no cell holds it before
Written == 999

SliceInit ==
    /\ pc = "sd_ready"
    /\ SegUnused
    /\ LapIdle
    /\ CacheIdle
    /\ sampling_rate = 30
    /\ session = NoSession
    /\ order = 0
    /\ filtered_accel = NoArray
    /\ filtered_gyro = NoArray
    /\ lap_index = 0
    /\ swim_laps = <<>>
    /\ calls = <<>>
    /\ fail_at = 0
    /\ raised = "none"
    /\ result = NoResult
    /\ summary = NoSummary
    /\ raw_data = NoArray
    /\ ApiIdle
    /\ RefineIdle
    /\ NullIdle
    /\ DetIdle
    /\ \E n \in 1..MaxSliceLen, optional \in SUBSET {"mag", "pressure"} :
          /\ heap = [b \in 1..Len(Fields) |-> [i \in 1..n |-> 10 * b + i]]
          /\ source = [f \in FieldSet |->
                          IF f \in {"mag", "pressure"} \ optional
                          THEN None
                          ELSE View(BufferOf(f), 0, n)]
    /\ sliced = None
    /\ snapshot = None

\* SensorData.slice(start_idx, end_idx)
SliceData ==
    /\ pc = "sd_ready"
    /\ \E start_idx \in 0..(MaxSliceLen + 1), end_idx \in 0..(MaxSliceLen + 1) :
          /\ sliced' = [f \in FieldSet |->
                           IF source[f] = None THEN None
                           ELSE Slice(source[f], start_idx, end_idx)]
          /\ snapshot' = [source |-> Contents(heap, source),
                          sliced |-> Contents(heap, sliced')]
    /\ pc' = "sd_sliced"
    /\ UNCHANGED <<coreVars, sliceFrame, heap, source>>

\* arr[i] = value on one array of a SensorData
WriteCell(obj, f, i) ==
    /\ obj[f] # None
    /\ i < obj[f].len
    /\ heap' = [heap EXCEPT ![obj[f].buf][obj[f].off + i + 1] = Written]

\* a write to an element of an array of the slice
WriteSlice ==
    /\ pc = "sd_sliced"
    /\ \E f \in FieldSet, i \in 0..(MaxSliceLen - 1) : WriteCell(sliced, f, i)
    /\ pc' = "sd_slice_written"
    /\ UNCHANGED <<coreVars, sliceFrame, source, sliced, snapshot>>

\* a write to an element of an array of the source
WriteSource ==
    /\ pc = "sd_sliced"
    /\ \E f \in FieldSet, i \in 0..(MaxSliceLen - 1) : WriteCell(source, f, i)
    /\ pc' = "sd_source_written"
    /\ UNCHANGED <<coreVars, sliceFrame, source, sliced, snapshot>>

SliceNext == SliceData \/ WriteSlice \/ WriteSource

SliceSpec == SliceInit /\ [][SliceNext]_vars

\* C22: the instance slice returns shares no mutable state with the source:
\* after a write to an element of the slice every array of the source is as
\* it was, and after a write to the source the slice is as it was.
C22_SliceSharesNothing ==
    /\ pc = "sd_slice_written" =>
          Contents(heap, source) = snapshot.source
    /\ pc = "sd_source_written" =>
          Contents(heap, sliced) = snapshot.sliced

----------------------------------------------------------------------------
(* pipeline.py, analyze and analyze_from_arrays called repeatedly *)

\* lap_segments of analyze for a filtered accel
LapSegments(f_accel, rate) ==
    FilterShortSegments(
        FindSegments(
            MorphologicalOpen(
                MorphologicalClose(SwimmingMask(f_accel.data),
                                   CloseSize(rate)),
                OpenSize(rate))),
        MinSamples(rate))

\* The list `laps` analyze builds for a filtered accel
LapsOfAnalysis(f_accel, rate, pool_length_m) ==
    LET segs == LapSegments(f_accel, rate)
    IN  [k \in 1..Len(segs) |->
            LET lap_accel == LapAccel(f_accel, segs[k])
                style     == Classify(lap_accel)
            IN  SwimLap(k, segs[k][1], segs[k][2], style,
                        CountStrokes(lap_accel, style, rate), rate,
                        pool_length_m)]

\* The AnalysisResult of analyze with its session_id and processed_at
Stamped(res, session_id, processed_at) ==
    [session_id     |-> session_id,
     processed_at   |-> processed_at,
     pool_length_m  |-> res.pool_length_m,
     laps           |-> res.laps,
     filtered_accel |-> res.filtered_accel,
     filtered_gyro  |-> res.filtered_gyro]

\* analyze(session) of a session of at most order + 1 samples, which the
\* filter returns as it is, when datetime.now() gives processed_at
Analyze(sess, session_id, rate, processed_at) ==
    Stamped(AnalysisResult(sess.pool_length_m,
                           LapsOfAnalysis(sess.accel, rate,
                                          sess.pool_length_m),
                           sess.accel, sess.gyro),
            session_id, processed_at)

\* analyze calls made on the session
MaxAnalyses == 2

\* ticks of the clock
MaxClock == 2

\* Sessions of two-dimensional arrays short enough to pass the filter as
\* they are
DetAccels == {a \in PipeAccels : a.ndim = 2 /\ Len(a.data) <= 49}

DetInit ==
    /\ pc \in {"analyze", "analyze_from_arrays"}
    /\ SegUnused
    /\ LapIdle
    /\ CacheIdle
    /\ SliceIdle
    /\ sampling_rate \in PipeRates
    /\ \E accel_arr \in DetAccels, pool \in PoolLengths :
          session = SessionData(Len(accel_arr.data), accel_arr,
                                Array(2, Zeros(Len(accel_arr.data))), pool)
    /\ order = 48
    /\ filtered_accel = NoArray
    /\ filtered_gyro = NoArray
    /\ lap_index = 0
    /\ swim_laps = <<>>
    /\ calls = <<>>
    /\ fail_at = 0
    /\ raised = "none"
    /\ result = NoResult
    /\ summary = NoSummary
    /\ raw_data = NoArray
    /\ ApiIdle
    /\ RefineIdle
    /\ NullIdle
    /\ now = 0
    /\ uuids = 1
    /\ runs = <<>>

\* The clock moves on.
Tick ==
    /\ now < MaxClock
    /\ now' = now + 1
    /\ UNCHANGED <<pc, coreVars, detFrame, uuids, runs>>

\* pipeline.analyze(session), the whole call, on the SessionData whose
\* session_id is the first uuid drawn
AnalyzeSession ==
    /\ pc = "analyze"
    /\ Len(runs) < MaxAnalyses
    /\ runs' = Append(runs, Analyze(session, 1, sampling_rate, now))
    /\ UNCHANGED <<pc, coreVars, detFrame, now, uuids>>

\* pipeline.analyze_from_arrays(timestamps, accel, gyro, pool_length_m), the
\* whole call: session_id or uuid4() with no session_id given
AnalyzeFromArrays ==
    /\ pc = "analyze_from_arrays"
    /\ Len(runs) < MaxAnalyses
    /\ uuids' = uuids + 1
    /\ runs' = Append(runs, Analyze(session, uuids', sampling_rate, now))
    /\ UNCHANGED <<pc, coreVars, detFrame, now>>

DetNext == Tick \/ AnalyzeSession \/ AnalyzeFromArrays

DetSpec == DetInit /\ [][DetNext]_vars

\* C23: two analyze calls given the same session and the same pipeline
\* return AnalysisResults equal in every field: session id, processing
\* timestamp, pool length, laps and filtered arrays.
C23_AnalyzeDeterministic ==
    \A i \in 1..Len(runs), j \in 1..Len(runs) : runs[i] = runs[j]

----------------------------------------------------------------------------
(* segmenter.py, NullProbabilitySegmenter *)

\* self.null_probs is None
NoProbs == <<-1>>

\* The state of the loop of segment: the ranges appended, whether a run is
\* open, and where it started
LoopStart == [segments |-> <<>>, in_segment |-> FALSE, start_idx |-> 0]

\* One iteration, for the 0-based index i and its mask value
LoopStep(st, i, is_active) ==
    IF is_active /\ ~st.in_segment
    THEN [st EXCEPT !.start_idx = i, !.in_segment = TRUE]
    ELSE IF ~is_active /\ st.in_segment
    THEN [st EXCEPT !.segments = Append(@, <<st.start_idx, i>>),
                    !.in_segment = FALSE]
    ELSE st

RECURSIVE LoopOver(_, _)
\* The state after the first n iterations over the mask
LoopOver(mask, n) ==
    IF n = 0 THEN LoopStart
    ELSE LoopStep(LoopOver(mask, n - 1), n - 1, mask[n])

AfterLoop_OpenRunDropped(st, n) == st.segments

\* if in_segment: segments.append((start_idx, len(swimming_mask)))
AfterLoop(st, n) ==
    IF st.in_segment THEN Append(st.segments, <<st.start_idx, n>>)
    ELSE st.segments

\* NullProbabilitySegmenter.segment with null_probs set
NullSegments(probs, threshold) ==
    LET mask == [i \in 1..Len(probs) |-> probs[i] < threshold]
    IN  AfterLoop(LoopOver(mask, Len(probs)), Len(probs))

MaxNullLen == 4

\* Probabilities around the default threshold 0.5 and a configured 0.3
ProbValues == {0, 30, 49, 50, 100}

Thresholds == {30, 50}

NullInit ==
    /\ pc = "null_ready"
    /\ LapIdle
    /\ CacheIdle
    /\ SliceIdle
    /\ DetIdle
    /\ sampling_rate \in PipeRates
    /\ swimming_mask = <<>>
    /\ closed_mask = <<>>
    /\ opened_mask = <<>>
    /\ segments = <<>>
    /\ laps = <<>>
    /\ session = NoSession
    /\ order = 0
    /\ filtered_accel = NoArray
    /\ filtered_gyro = NoArray
    /\ lap_index = 0
    /\ swim_laps = <<>>
    /\ calls = <<>>
    /\ fail_at = 0
    /\ raised = "none"
    /\ result = NoResult
    /\ summary = NoSummary
    /\ raw_data = NoArray
    /\ ApiIdle
    /\ RefineIdle
    /\ prob_threshold \in Thresholds
    /\ null_segments = <<>>
    /\ \/ /\ null_probs \in UNION {[1..n -> ProbValues] : n \in 0..MaxNullLen}
          /\ accel = <<>>
       \/ /\ null_probs = NoProbs
          /\ accel \in {a \in PipeSeries : Len(a) <= 30}

\* NullProbabilitySegmenter.segment(sensor_data, sampling_rate), the whole
\* call; without probabilities it is PitchRollSegmenter().segment
NullSegment ==
    /\ pc = "null_ready"
    /\ null_segments' =
          IF null_probs = NoProbs
          THEN LapSegments(Array(2, accel), sampling_rate)
          ELSE NullSegments(null_probs, prob_threshold)
    /\ pc' = "null_done"
    /\ UNCHANGED <<coreVars, nullFrame, null_probs, prob_threshold>>

NullNext == NullSegment

NullSpec == NullInit /\ [][NullNext]_vars

\* C24: with null probabilities supplied, segment returns exactly the
\* maximal runs of samples whose probability is below the threshold, as
\* half-open ranges in ascending order, a run that reaches the end and a
\* run of one sample included, with nothing filled, removed or filtered.
C24_NullRunsExactly ==
    (pc = "null_done" /\ null_probs # NoProbs) =>
        LET n         == Len(null_probs)
            active(i) == null_probs[i + 1] < prob_threshold
            isRun(s, e) ==
                /\ s < e
                /\ \A i \in s..(e - 1) : active(i)
                /\ s = 0 \/ ~active(s - 1)
                /\ e = n \/ ~active(e)
            runs_     == {r \in (0..n) \X (0..n) : isRun(r[1], r[2])}
        IN  /\ {null_segments[k] : k \in 1..Len(null_segments)} = runs_
            /\ Len(null_segments) = Cardinality(runs_)
            /\ \A k \in 1..(Len(null_segments) - 1) :
                  null_segments[k][2] < null_segments[k + 1][1]

\* a run of one sample and, after a gap of one sample, a run that reaches
\* the end are both returned
C24_Witness ==
    /\ pc = "null_done"
    /\ null_probs # NoProbs
    /\ Len(null_probs) = 4
    /\ null_segments = <<<<0, 1>>, <<2, 4>>>>

----------------------------------------------------------------------------
(* segmenter.py, PitchRollSegmenter: the distance between laps *)

\* The lap that holds the 1-based sample position p, or 0
LapHolding(p) ==
    IF \E k \in 1..Len(laps) : laps[k][1] < p /\ p <= laps[k][2]
    THEN CHOOSE k \in 1..Len(laps) : laps[k][1] < p /\ p <= laps[k][2]
    ELSE 0

----------------------------------------------------------------------------
(* segmenter.py, PitchRollSegmenter.refine_lap_boundaries *)

RefineWindow_FiveSeconds(rate) == 5 * rate

\* window = int(2 * sampling_rate)
RefineWindow(rate) == 2 * rate

\* acc[lo:hi] for 0 <= lo: the stop is clipped to the length
Region(acc, lo, hi) ==
    SubSeq(acc, lo + 1, IF hi < Len(acc) THEN hi ELSE Len(acc))

\* np.abs(np.diff(magnitudes))[j] of a region, j from 0
Jump(region, j) == Abs(Magnitude(region[j + 2]) - Magnitude(region[j + 1]))

\* np.argmax(np.abs(np.diff(magnitudes))): the first index of the largest
\* jump of a region of at least two samples
SpikeIdx(region) ==
    CHOOSE j \in 0..(Len(region) - 2) :
        /\ \A i \in 0..(Len(region) - 2) : Jump(region, i) <= Jump(region, j)
        /\ \A i \in 0..(j - 1) : Jump(region, i) < Jump(region, j)

\* A boundary at index at, snapped within its region; argmax of an empty
\* sequence (a region of one sample) raises ValueError
Snap(acc, at, window, hi) ==
    LET lo     == Max2(0, at - window)
        region == Region(acc, lo, hi)
    IN  IF Len(region) = 0 THEN [raised |-> "none", at |-> at]
        ELSE IF Len(region) = 1 THEN [raised |-> "ValueError", at |-> at]
        ELSE [raised |-> "none", at |-> lo + SpikeIdx(region)]

\* One pass of the loop body of refine_lap_boundaries
RefineOne(acc, seg, rate) ==
    LET window    == RefineWindow(rate)
        new_start == Snap(acc, seg[1], window, seg[1] + window)
        new_end   == Snap(acc, seg[2], window,
                          IF seg[2] + window < Len(acc) THEN seg[2] + window
                          ELSE Len(acc))
    IN  [raised |-> IF new_start.raised # "none" THEN new_start.raised
                    ELSE new_end.raised,
         range  |-> <<new_start.at,
                      IF new_end.at < Len(acc) THEN new_end.at
                      ELSE Len(acc)>>]

\* refine_lap_boundaries(sensor_data, segments, sampling_rate), the whole
\* call, on the ranges segment returned for the same data
RefineLapBoundaries ==
    /\ pc = "seg_done"
    /\ LET each == [k \in 1..Len(laps) |->
                       RefineOne(accel, laps[k], sampling_rate)]
       IN  IF \E k \in 1..Len(laps) : each[k].raised # "none"
           THEN /\ raised' = "ValueError"
                /\ UNCHANGED refined
           ELSE /\ refined' = [k \in 1..Len(laps) |-> each[k].range]
                /\ UNCHANGED raised
    /\ pc' = "seg_refined"
    /\ UNCHANGED <<sampling_rate, accel, swimming_mask, closed_mask,
                   opened_mask, segments, laps, lap_data, stroke_type,
                   peak_count, fft_count, stroke_count, session, order,
                   filtered_accel, filtered_gyro, lap_index, swim_laps,
                   calls, fail_at, result, summary, raw_data, refineFrame>>

RefineNext == Segment \/ RefineLapBoundaries

RefineSpec == SegInit /\ [][RefineNext]_vars

\* The 0-based position p of a series is where the largest jump of
\* magnitude between neighbours of acc[lo:hi] begins (the first such).
IsLargestJump(acc, lo, hi, p) ==
    LET jump(q) == Abs(Magnitude(acc[q + 2]) - Magnitude(acc[q + 1]))
    IN  /\ lo <= p
        /\ p + 1 < hi
        /\ \A q \in lo..(hi - 2) : jump(q) <= jump(p)
        /\ \A q \in lo..(p - 1) : jump(q) < jump(p)

\* C27: on the ranges segment produced for the same data,
\* refine_lap_boundaries returns as many ranges, each start and end at most
\* int(2 * sampling_rate) samples from where it was and at the largest
\* jump of magnitude of its window, and the ranges are still ascending,
\* disjoint and within 0 <= start < end <= N.
C27_RefineKeepsRanges ==
    pc = "seg_refined" =>
        LET n == Len(accel)
            w == 2 * sampling_rate
        IN  /\ raised = "none"
            /\ Len(refined) = Len(laps)
            /\ \A k \in 1..Len(refined) :
                  /\ Abs(refined[k][1] - laps[k][1]) <= w
                  /\ Abs(refined[k][2] - laps[k][2]) <= w
                  /\ IsLargestJump(accel, Max2(0, laps[k][1] - w),
                                   Min2(n, laps[k][1] + w), refined[k][1])
                  /\ IsLargestJump(accel, Max2(0, laps[k][2] - w),
                                   Min2(n, laps[k][2] + w), refined[k][2])
                  /\ 0 <= refined[k][1]
                  /\ refined[k][1] < refined[k][2]
                  /\ refined[k][2] <= n
            /\ \A k \in 1..(Len(refined) - 1) :
                  /\ refined[k][1] < refined[k + 1][1]
                  /\ refined[k][2] <= refined[k + 1][1]

\* two laps, the end of the first and the start of the second moved
C27_Witness ==
    /\ pc = "seg_refined"
    /\ Len(laps) = 2
    /\ Len(refined) = 2
    /\ refined[1][2] # laps[1][2]
    /\ refined[2][1] # laps[2][1]

----------------------------------------------------------------------------
(* api/v1/sessions.py and api/v1/analysis.py *)

\* The uploaded tables: an empty file, a file read_csv cannot parse, a
\* table without a sensor column, a table without the timestamp column
\* only, a table with a cell that is not a number, a table the pipeline
\* raises on, and a table that is analysed
Tables ==
    {"empty", "garbled", "no_sensor_column", "no_timestamp", "text_cell",
     "pipeline_error", "good"}

\* pd.read_csv(io.BytesIO(content)): the exception it raises, or "none"
ReadCsv(table) ==
    IF table = "empty" THEN "EmptyDataError"
    ELSE IF table = "garbled" THEN "ParserError"
    ELSE "none"

\* upload_session: missing = [col for col in required_cols if col not in
\* df.columns], required_cols with 'timestamp'
MissingForUpload(table) == table \in {"no_sensor_column", "no_timestamp"}

\* quick_analyze: the same over required_cols without 'timestamp'
MissingForQuick(table) == table = "no_sensor_column"

\* The status code of the response for an exception raised inside the try
\* block of upload_session (an HTTPException is an Exception)
UploadHandlers(exc) == IF exc = "EmptyDataError" THEN 400 ELSE 500

\* The same for quick_analyze, which has the one handler
QuickHandlers(exc) == 500

\* What raises in _process_session: .astype(float) on a cell that is not a
\* number, and pipeline.analyze
RaisesInExtract(table) == table = "text_cell"

RaisesInAnalyze(table) == table = "pipeline_error"

\* sessions uploaded
MaxSessions == 2

SessionIds == 1..MaxSessions

ApiInit ==
    /\ pc = "api"
    /\ SegUnused
    /\ LapIdle
    /\ CacheIdle
    /\ SliceIdle
    /\ DetIdle
    /\ NullIdle
    /\ RefineIdle
    /\ sampling_rate = 30
    /\ session = NoSession
    /\ order = 0
    /\ filtered_accel = NoArray
    /\ filtered_gyro = NoArray
    /\ lap_index = 0
    /\ swim_laps = <<>>
    /\ calls = <<>>
    /\ fail_at = 0
    /\ raised = "none"
    /\ result = NoResult
    /\ summary = NoSummary
    /\ raw_data = NoArray
    /\ sessions = <<>>
    /\ results = {}
    /\ tasks = <<>>
    /\ response = [op |-> "none"]
    /\ issued = 0
    /\ deleted = {}

\* d[key] = value
Put(d, key, value) ==
    [k \in DOMAIN d \cup {key} |-> IF k = key THEN value ELSE d[k]]

\* del d[key]
Del(d, key) == [k \in DOMAIN d \ {key} |-> d[k]]

Response(op, code, detail, id) ==
    [op |-> op, code |-> code, detail |-> detail, id |-> id]

\* A background task is between its first and its last statement: it is a
\* coroutine without an await, so no request is served meanwhile
Running(id) ==
    id \in DOMAIN tasks /\ tasks[id].at \notin {"queued", "done"}

NoneRunning == \A id \in SessionIds : ~Running(id)

\* upload_session, the whole request
UploadSession ==
    /\ NoneRunning
    /\ issued < MaxSessions
    /\ issued' = issued + 1
    /\ \E table \in Tables :
          LET session_id == issued + 1
              exc == IF ReadCsv(table) # "none" THEN ReadCsv(table)
                     ELSE IF MissingForUpload(table) THEN "HTTPException"
                     ELSE "none"
          IN  IF exc # "none"
              THEN /\ response' = Response("upload", UploadHandlers(exc),
                                           exc, session_id)
                   /\ UNCHANGED <<sessions, tasks>>
              ELSE /\ sessions' = Put(sessions, session_id,
                                      [status   |-> "processing",
                                       progress |-> 0,
                                       error    |-> FALSE])
                   /\ tasks' = Put(tasks, session_id,
                                   [table |-> table, at |-> "queued"])
                   /\ response' = Response("upload", 200, "processing",
                                           session_id)
    /\ UNCHANGED <<pc, coreVars, apiFrame, results, deleted>>

\* quick_analyze, the whole request
QuickAnalyze ==
    /\ NoneRunning
    /\ \E table \in Tables :
          LET exc == IF ReadCsv(table) # "none" THEN ReadCsv(table)
                     ELSE IF MissingForQuick(table) THEN "HTTPException"
                     ELSE IF RaisesInExtract(table) THEN "ValueError"
                     ELSE IF RaisesInAnalyze(table) THEN "ValueError"
                     ELSE "none"
          IN  response' = IF exc # "none"
                          THEN Response("quick_analyze", QuickHandlers(exc),
                                        exc, 0)
                          ELSE Response("quick_analyze", 200, "result", 0)
    /\ UNCHANGED <<pc, coreVars, apiFrame, sessions, results, tasks, issued,
                   deleted>>

\* if session_id in _sessions: _sessions[session_id]["progress"] = p
WithProgress(db, id, p) ==
    IF id \in DOMAIN db THEN [db EXCEPT ![id].progress = p] ELSE db

OnException_Swallowed(db, id) == db

\* except Exception: status FAILED and the error, if the session is stored
OnException(db, id) ==
    IF id \in DOMAIN db
    THEN [db EXCEPT ![id].status = "failed", ![id].error = TRUE]
    ELSE db

StoreResult_Skipped(res, id) == res

\* _analysis_results[session_id] = result
StoreResult(res, id) == res \cup {id}

\* A task that has returned; its table is garbage
Ended == [table |-> "none", at |-> "done"]

\* _process_session, from its start to progress 10
TaskStart(id) ==
    /\ NoneRunning
    /\ id \in DOMAIN tasks
    /\ tasks[id].at = "queued"
    /\ sessions' = WithProgress(sessions, id, 10)
    /\ tasks' = [tasks EXCEPT ![id].at = "started"]
    /\ UNCHANGED <<pc, coreVars, apiFrame, results, response, issued,
                   deleted>>

\* the arrays, the SensorData and the SessionData, to progress 30
TaskExtract(id) ==
    /\ id \in DOMAIN tasks
    /\ tasks[id].at = "started"
    /\ IF RaisesInExtract(tasks[id].table)
       THEN /\ sessions' = OnException(sessions, id)
            /\ tasks' = [tasks EXCEPT ![id] = Ended]
       ELSE /\ sessions' = WithProgress(sessions, id, 30)
            /\ tasks' = [tasks EXCEPT ![id].at = "extracted"]
    /\ UNCHANGED <<pc, coreVars, apiFrame, results, response, issued,
                   deleted>>

\* pipeline.analyze(session), to progress 90
TaskAnalyze(id) ==
    /\ id \in DOMAIN tasks
    /\ tasks[id].at = "extracted"
    /\ IF RaisesInAnalyze(tasks[id].table)
       THEN /\ sessions' = OnException(sessions, id)
            /\ tasks' = [tasks EXCEPT ![id] = Ended]
       ELSE /\ sessions' = WithProgress(sessions, id, 90)
            /\ tasks' = [tasks EXCEPT ![id].at = "analyzed"]
    /\ UNCHANGED <<pc, coreVars, apiFrame, results, response, issued,
                   deleted>>

\* _analysis_results[session_id] = result
TaskStore(id) ==
    /\ id \in DOMAIN tasks
    /\ tasks[id].at = "analyzed"
    /\ results' = StoreResult(results, id)
    /\ tasks' = [tasks EXCEPT ![id].at = "stored"]
    /\ UNCHANGED <<pc, coreVars, apiFrame, sessions, response, issued,
                   deleted>>

\* _sessions[session_id]["status"] = SessionStatus.COMPLETED
TaskComplete(id) ==
    /\ id \in DOMAIN tasks
    /\ tasks[id].at = "stored"
    /\ sessions' = IF id \in DOMAIN sessions
                   THEN [sessions EXCEPT ![id].status = "completed"]
                   ELSE sessions
    /\ tasks' = [tasks EXCEPT ![id].at = "completed"]
    /\ UNCHANGED <<pc, coreVars, apiFrame, results, response, issued,
                   deleted>>

\* _sessions[session_id]["progress"] = 100, and the task ends
TaskEnd(id) ==
    /\ id \in DOMAIN tasks
    /\ tasks[id].at = "completed"
    /\ sessions' = WithProgress(sessions, id, 100)
    /\ tasks' = [tasks EXCEPT ![id] = Ended]
    /\ UNCHANGED <<pc, coreVars, apiFrame, results, response, issued,
                   deleted>>

\* One step of the background task of a session
TaskStep(id) ==
    \/ TaskStart(id)
    \/ TaskExtract(id)
    \/ TaskAnalyze(id)
    \/ TaskStore(id)
    \/ TaskComplete(id)
    \/ TaskEnd(id)

\* get_session_status, the whole request
GetSessionStatus(id) ==
    /\ NoneRunning
    /\ response' = IF id \notin DOMAIN sessions
                   THEN Response("get_status", 404, "Session not found", id)
                   ELSE Response("get_status", 200, sessions[id].status, id)
    /\ UNCHANGED <<pc, coreVars, apiFrame, sessions, results, tasks, issued,
                   deleted>>

\* get_analysis_result, the whole request
GetAnalysisResult(id) ==
    /\ NoneRunning
    /\ response' =
          IF id \notin DOMAIN sessions
          THEN Response("get_analysis", 404, "Session not found", id)
          ELSE IF sessions[id].status = "processing"
          THEN Response("get_analysis", 202, "in progress", id)
          ELSE IF sessions[id].status = "failed"
          THEN Response("get_analysis", 500, "Analysis failed", id)
          ELSE IF id \notin results
          THEN Response("get_analysis", 404, "Analysis result not found", id)
          ELSE Response("get_analysis", 200, "result", id)
    /\ UNCHANGED <<pc, coreVars, apiFrame, sessions, results, tasks, issued,
                   deleted>>

\* delete_session, the whole request
DeleteSession(id) ==
    /\ NoneRunning
    /\ IF id \notin DOMAIN sessions
       THEN /\ response' = Response("delete", 404, "Session not found", id)
            /\ UNCHANGED <<sessions, results, deleted>>
       ELSE /\ sessions' = Del(sessions, id)
            /\ results' = results \ {id}
            /\ deleted' = deleted \cup {id}
            /\ response' = Response("delete", 200, "deleted", id)
    /\ UNCHANGED <<pc, coreVars, apiFrame, tasks, issued>>

ApiNext ==
    \/ UploadSession
    \/ QuickAnalyze
    \/ \E id \in SessionIds :
          \/ TaskStep(id)
          \/ GetSessionStatus(id)
          \/ GetAnalysisResult(id)
          \/ DeleteSession(id)

ApiSpec == ApiInit /\ [][ApiNext]_vars

\* The background task of every session is scheduled: a task that can take
\* a step does so.
ApiLiveSpec == ApiSpec /\ \A id \in SessionIds : WF_vars(TaskStep(id))

\* C25: upload_session and quick_analyze answer a table that lacks a
\* required sensor column with status 400, and store no session and queue
\* no analysis for it.
C25_MissingColumnsAre400 ==
    (/\ pc = "api"
     /\ response.op \in {"upload", "quick_analyze"}
     /\ response.detail = "HTTPException") =>
        /\ response.code = 400
        /\ response.id \notin DOMAIN sessions
        /\ response.id \notin DOMAIN tasks

\* C28: a stored session starts as PROCESSING with progress 0; its status
\* changes at most once, from PROCESSING to COMPLETED or FAILED; its
\* progress never decreases; and while its status is COMPLETED a result is
\* stored for it, so get_analysis_result never answers "result not found".
C28_StatusLifecycle ==
    /\ [][\A id \in DOMAIN sessions' :
             IF id \notin DOMAIN sessions
             THEN /\ sessions'[id].status = "processing"
                  /\ sessions'[id].progress = 0
             ELSE /\ sessions'[id].status # sessions[id].status =>
                         /\ sessions[id].status = "processing"
                         /\ sessions'[id].status \in {"completed", "failed"}
                  /\ sessions'[id].progress >= sessions[id].progress]_vars
    /\ [](\A id \in DOMAIN sessions :
             sessions[id].status = "completed" => id \in results)
    /\ [](pc = "api" =>
             ~(/\ response.op = "get_analysis"
               /\ response.detail = "Analysis result not found"))

\* a session is COMPLETED with progress 100 and its result was served,
\* and another has FAILED
C28_Witness ==
    /\ pc = "api"
    /\ response.op = "get_analysis"
    /\ response.code = 200
    /\ response.id \in DOMAIN sessions
    /\ sessions[response.id].status = "completed"
    /\ sessions[response.id].progress = 100
    /\ \E id \in DOMAIN sessions :
          sessions[id].status = "failed" /\ sessions[id].progress = 30

\* C29: once delete_session(id) has succeeded no analysis result is stored
\* for id, whether the delete came before, or after the background task of
\* the session ran.
C29_DeleteLeavesNoResult ==
    \A id \in deleted : id \notin results

\* C30: a session accepted by upload_session eventually is deleted or
\* leaves PROCESSING for COMPLETED or FAILED, when its background task is
\* scheduled, whatever the extraction or the pipeline raises.
C30_LeavesProcessing ==
    \A id \in SessionIds :
        (id \in DOMAIN sessions /\ sessions[id].status = "processing")
            ~> (\/ id \notin DOMAIN sessions
                \/ sessions[id].status \in {"completed", "failed"})

\* a session whose extraction raised has FAILED, and one has COMPLETED
C30_Witness ==
    /\ pc = "api"
    /\ \E id \in DOMAIN sessions :
          /\ sessions[id].status = "failed"
          /\ sessions[id].progress = 10
    /\ \E id \in DOMAIN sessions :
          /\ sessions[id].status = "completed"
          /\ tasks[id].at = "done"

====
